---- MODULE Spec2Model ----
(***************************************************************************)
(* Model of the delivery retry engine, src/src/scheduler/retry.py          *)
(* (RetryManager): a queue of RetryTask objects, one cooperative worker    *)
(* task per start(), one delayed-requeue task per failed attempt, and a    *)
(* dead-letter list.  Each action is one atomic block of a coroutine, from *)
(* one suspension point (await) to the next.                               *)
(***************************************************************************)
EXTENDS Integers, Sequences, FiniteSets, TLC

\* ---- bounds of the model ----
MaxTasks == 2
MaxWorkers == 2

\* ---- program constants ----
MaxRetries == 3
BackoffBase == 5
JitterMin == 1
JitterMax == 5

TaskIds == 1..MaxTasks
WorkerIds == 1..MaxWorkers
None == 0

\* random.uniform(1, 5): the integer points of the interval.  The jitter only
\* adds to the delay, which the engine records and no condition reads; only
\* JitterSpec draws it from the whole interval, the others from CoarseJitters.
Jitters == JitterMin..JitterMax
CoarseJitters == {JitterMax}

VARIABLES
    running,           \* self.running
    worker_task,       \* self.worker_task: a worker id, or None
    queue,             \* self.queue: FIFO of task ids
    retry_count,       \* RetryTask.retry_count of every task
    dlq,               \* self._dlq
    report_generator,  \* whether self.report_generator is set (main.py always passes one)
    workers,           \* the _worker() coroutines, by the slot each runs in
    timers,            \* the live _requeue_after_delay() coroutines
    stop_pc,           \* where the stop() coroutine is suspended
    created,           \* number of RetryTask objects created by add_task
    nfail,             \* per task: _process_task calls that returned False
    nsucc,             \* per task: _process_task calls that returned True
    nsched,            \* per task: delayed requeues scheduled
    lastdelay,         \* per task: the delay of the requeue scheduled last (0: none)
    fbcalls,           \* per task: calls of _send_fallback_text
    fbsends,           \* per task: fallback send_message attempts
    fbfailed,          \* tasks whose fallback send_message raised
    dropped            \* tasks the engine let go of without delivery or dead-letter

\* The scheduler, src/src/scheduler/auto_scheduler.py (AutoScheduler)
VARIABLES
    clock,                \* datetime.now(), in ticks of a day
    auto_analysis_time,   \* config auto_analysis.time, as a tick of the day
    enable_auto_analysis, \* config auto_analysis.enabled
    scheduler_task,       \* self.scheduler_task: a loop id, or None
    last_execution_date,  \* self.last_execution_date: a day, or None
    loops,                \* the _scheduler_loop() coroutines, by slot
    starters,             \* start_scheduler() calls in their asyncio.sleep(10)
    nruns,                \* per day: _run_auto_analysis calls started that day
    stopped               \* stop_scheduler returned and start_scheduler was not called since

loop_vars == <<clock, auto_analysis_time, enable_auto_analysis, scheduler_task,
               last_execution_date, loops, starters, nruns, stopped>>

\* One scheduled run and the per-group analyses (auto_scheduler.py:192-426)
VARIABLES
    config_max_concurrent, \* config analysis.max_concurrent_tasks as the run read it
    max_concurrent,        \* max_concurrent of the current run
    sem,                   \* free slots of the run's asyncio.Semaphore
    run_pc,                \* where _run_auto_analysis is
    enabled_groups,        \* enabled_groups of the current run
    calls,                 \* per group: the calls of _perform_auto_analysis_for_group
    group_locks,           \* self._group_locks: per group a lock, or None
    manual                 \* per group: an analyze_group_daily command in flight

run_vars == <<config_max_concurrent, max_concurrent, sem, run_pc, enabled_groups,
              calls, group_locks, manual>>

sched_vars == <<loop_vars, run_vars>>

\* One analysis of a group from the fetch of its messages to the delivery of
\* the report (auto_scheduler.py:289-647, main.py:184-392)
VARIABLES
    flow,     \* the analysis call in flight: its path, position and locals
    effects   \* what that call has done so far, by kind of effect

deliver_vars == <<flow, effects>>

\* One analyze_all_concurrent call and its three analyzers
\* (llm_analyzer.py:112-187, analyzers/base_analyzer.py:107-210)
VARIABLES
    analyzers,  \* per analyzer: the coroutine gather runs for it
    fan         \* the analyze_all_concurrent call: its position and its result

analyze_vars == <<analyzers, fan>>

\* The bot registry and one retry task's destination
\* (bot_manager.py:27-53, retry.py:68-100, 253-268)
VARIABLES
    bots,   \* BotManager._bot_instances: the registered platform ids, in insertion order
    rtask   \* a RetryTask's platform_id and how its last attempt resolved it

resolve_vars == <<bots, rtask>>

\* One generate_image_report call (reports/generators.py:27-125)
VARIABLES
    render  \* the call: its position, the markup built, the strategies tried
            \* with their outcomes, and the pair it returned

render_vars == <<render>>

\* The browser installer (utils/pdf_utils.py:13-145)
VARIABLES
    install_status,  \* PDFInstaller._install_status
    bg_tasks,        \* the _background_playwright_install tasks alive, by position
    callers          \* the install_playwright calls in flight and their replies

install_vars == <<install_status, bg_tasks, callers>>

\* What the last stop() call found when it was called (history, for the
\* frame of stop(); retry.py:114-141)
VARIABLES
    stop_seen  \* the tasks in flight and the queue at the last call of stop()

stop_note_vars == <<stop_seen>>

\* What the room received from the attempts of a task (history, for the
\* sends of _process_task; retry.py:290-306)
VARIABLES
    prefix_sends  \* per task: prefix text messages the room received

sent_note_vars == <<prefix_sends>>

retry_vars == <<running, worker_task, queue, retry_count, dlq, report_generator,
                workers, timers, stop_pc, created, nfail, nsucc, nsched,
                lastdelay, fbcalls, fbsends, fbfailed, dropped>>

vars == <<retry_vars, sched_vars, deliver_vars, analyze_vars, resolve_vars, render_vars, install_vars, stop_note_vars, sent_note_vars>>

\* what the scheduler loop leaves alone
not_loop_vars == <<retry_vars, run_vars, deliver_vars, analyze_vars, resolve_vars, render_vars, install_vars, stop_note_vars, sent_note_vars>>

\* what the retry manager leaves alone
not_retry_vars == <<sched_vars, deliver_vars, analyze_vars, resolve_vars, render_vars, install_vars, stop_note_vars, sent_note_vars>>

\* what an analysis call leaves alone, the retry manager apart
not_deliver_vars == <<sched_vars, analyze_vars, resolve_vars, render_vars, install_vars, stop_note_vars, sent_note_vars>>

\* what the analyzers leave alone
not_analyze_vars == <<retry_vars, sched_vars, deliver_vars, resolve_vars, render_vars, install_vars, stop_note_vars, sent_note_vars>>

\* what a scheduled run and the group analyses leave alone
not_run_vars == <<retry_vars, loop_vars, deliver_vars, analyze_vars, resolve_vars, render_vars, install_vars, stop_note_vars, sent_note_vars>>

not_resolve_vars == <<retry_vars, sched_vars, deliver_vars, analyze_vars, render_vars, install_vars, stop_note_vars, sent_note_vars>>

not_render_vars == <<retry_vars, sched_vars, deliver_vars, analyze_vars, resolve_vars, install_vars, stop_note_vars, sent_note_vars>>

not_install_vars == <<retry_vars, sched_vars, deliver_vars, analyze_vars, resolve_vars, render_vars, stop_note_vars, sent_note_vars>>

not_stop_note_vars == <<sched_vars, deliver_vars, analyze_vars, resolve_vars, render_vars, install_vars, sent_note_vars>>

not_sent_note_vars == <<sched_vars, deliver_vars, analyze_vars, resolve_vars, render_vars, install_vars, stop_note_vars>>

ghost == <<nfail, nsucc, nsched, lastdelay, fbcalls, fbsends, fbfailed, dropped>>

\* ---- pure helpers ----

RECURSIVE Pow2(_)
Pow2(n) == IF n = 0 THEN 1 ELSE 2 * Pow2(n - 1)

\* delay = 5 * (2**task.retry_count) + jitter, computed when the task is
\* dequeued, from the retry count it has then
DelayPostIncrement(rc, jitter) == BackoffBase * Pow2(rc + 1) + jitter
Delay(rc, jitter) == BackoffBase * Pow2(rc) + jitter

Count(s, x) == Cardinality({i \in 1..Len(s) : s[i] = x})

\* The ways one _process_task call can go, by the step that ends it.
ProcessOutcomes ==
    {"render_exc", "render_empty", "resolve_exc", "no_bot", "no_iface",
     "upload_exc", "no_uri", "prefix_exc", "image_exc", "ok"}

ExceptionOutcomes ==
    {"render_exc", "resolve_exc", "upload_exc", "prefix_exc", "image_exc"}

\* Whether an exception of the call escapes _process_task: every statement of
\* it is inside try/except Exception, so none does.
ProcessTaskRaisesLeaky(o) == o \in {"render_exc", "resolve_exc"}
ProcessTaskRaises(o) == FALSE

\* The value _process_task returns
ProcessTask(o) == o = "ok"

\* The ways _send_fallback_text can go before its send_message call
FallbackOutcomes == {"gen_exc", "no_bot", "no_iface", "send"}

\* A worker: where it is suspended, the task it holds, the delay it computed,
\* whether cancel() was called on it, and whether the _process_task call of
\* that task is one an exception is raised inside (how the call goes is
\* settled when it starts; the flag stays until the worker's next step
\* after the call)
NoWorker == [pc |-> "none", task |-> None, delay |-> 0, cancel |-> FALSE,
             raised |-> FALSE]

Live(w) == workers[w].pc \in {"start", "get", "process", "fallback", "sleep"}

\* ---- the scheduler: time and the loop coroutines ----

\* bounds: the clock runs over MaxDays days of TicksPerDay ticks
TicksPerDay == 3
MaxDays == 2
MaxLoops == 2
MaxStarters == 2
MaxRuns == 2

\* config default "09:00" (config.py), as a tick of the day
DefaultAnalysisTime == 1

LoopIds == 1..MaxLoops
Days == 1..MaxDays
Times == 0..(TicksPerDay - 1)

\* datetime.date() of an instant
Date(t) == (t \div TicksPerDay) + 1

NoLoop == [pc |-> "none", target |-> 0]

\* AutoScheduler.__init__, and the configuration before anybody edits it
SchedulerInit ==
    /\ clock = 0
    /\ auto_analysis_time = DefaultAnalysisTime
    /\ enable_auto_analysis = FALSE
    /\ scheduler_task = None
    /\ last_execution_date = None
    /\ loops = [l \in LoopIds |-> NoLoop]
    /\ starters = 0
    /\ nruns = [d \in Days |-> 0]
    /\ stopped = FALSE

\* ---- the scheduled run: groups, calls and locks ----

\* bounds: the groups, and the concurrent 'test' calls per group
MaxGroups == 2
MaxTests == 1

\* get_max_concurrent_tasks: the default and the minimum (config.py:147-149)
DefaultMaxConcurrent == 5
MinConcurrent == 1

Groups == 1..MaxGroups
\* call slot 0 of a group is its task of the scheduled run, the others are
\* calls by the 'test' action of analysis_settings
Sched == 0
TestSlots == 1..MaxTests
CallSlots == {Sched} \cup TestSlots
\* identities of asyncio.Lock objects of one group
LockIds == 1..(MaxTests + 1)

\* what the configuration may hold under analysis.max_concurrent_tasks
RawConcurrent ==
    {[kind |-> "unset", val |-> 0], [kind |-> "bad", val |-> 0]}
       \cup {[kind |-> "int", val |-> n] : n \in {0, MaxGroups - 1}}

\* _get_nested(..., 5, ...) and then _normalize_int(value, 5, minimum=1)
NormalizeIntNoMinimum(raw, default, minimum) ==
    IF raw.kind = "int" THEN raw.val ELSE default
NormalizeInt(raw, default, minimum) ==
    LET normalized == IF raw.kind = "int" THEN raw.val ELSE default
    IN IF minimum > normalized THEN minimum ELSE normalized

GetMaxConcurrentTasks(raw) == NormalizeInt(raw, DefaultMaxConcurrent, MinConcurrent)

NoCall == [pc |-> "none", lock |-> None, outcome |-> "none"]

RunInit ==
    /\ config_max_concurrent = [kind |-> "unset", val |-> 0]
    /\ max_concurrent = None
    /\ sem = 0
    /\ run_pc = "idle"
    /\ enabled_groups = {}
    /\ calls = [g \in Groups |-> [c \in CallSlots |-> NoCall]]
    /\ group_locks = [g \in Groups |-> None]
    /\ manual = [g \in Groups |-> FALSE]

\* ---- one analysis call: the message gate and the delivery ----

\* bound: the largest number of messages a fetch returns
MaxMessages == 51

\* get_min_messages_threshold: the default and the minimum (config.py:231-234)
DefaultMinMessages == 50
MinMessagesFloor == 1

MessageCounts == 0..MaxMessages

\* what the configuration may hold under analysis.min_messages_threshold
RawThreshold ==
    {[kind |-> "unset", val |-> 0], [kind |-> "bad", val |-> 0]}
       \cup {[kind |-> "int", val |-> n] : n \in {0, 2, MaxMessages}}

GetMinMessagesThreshold(raw) == NormalizeInt(raw, DefaultMinMessages, MinMessagesFloor)

\* get_output_format: "image", "text" or "pdf"
Formats == {"image", "text", "pdf"}

\* The call in flight.  path: "sched" (_perform_auto_analysis_for_group) or
\* "cmd" (analyze_group_daily); pc: the await it is suspended at; n and
\* threshold: len(messages) and min_threshold once fetched; result: what
\* analyze_messages returned; render: what generate_image_report returned;
\* image: what _send_image_message returned
NoFlow == [path |-> "none", pc |-> "idle", n |-> 0, threshold |-> 0,
           result |-> "none", render |-> "none", image |-> "none"]

\* Calls made so far: analyze_messages, generate_image_report or
\* generate_pdf_report, _send_image_message, _send_pdf_file, the text report
\* (_send_text_message or the command's reply), the "see the link" notice of
\* a failed image send, and retry_manager.add_task
NoEffects == [analyze |-> 0, render |-> 0, image |-> 0, pdf |-> 0, text |-> 0,
              notice |-> 0, enqueued |-> 0]

DeliverInit ==
    /\ flow = NoFlow
    /\ effects = NoEffects

\* ---- analyze_all_concurrent and the analyzers ----

\* bound: the largest prompt token count a provider reports
MaxTokens == 1

\* the three coroutines of the gather, in its order
Analyzers == {"topics", "titles", "quotes"}

\* TokenUsage as (prompt_tokens, completion_tokens, total_tokens); the total
\* is what the provider reports, not a sum the plugin computes
Usages == {<<p, 1, t>> : p \in 0..MaxTokens, t \in (MaxTokens + 1)..(MaxTokens + 2)}

\* TokenUsage()
ZeroUsage == <<0, 0, 0>>

\* An analyzer coroutine: where it is, how it ended, and what it did.
\* status: whether it returned a pair or raised into the gather; prompt: what build_prompt gave; calls: calls of the provider gateway;
\* response, parse, regex: what the provider, parse_json_response and
\* extract_with_regex gave; steps: the stages run after the response, in
\* order; items and usage: the pair it returned
\* input: whether the entry point found anything to analyse; fault: where an
\* unexpected exception was raised after the response, if anywhere
NoAnalyzer == [pc |-> "idle", status |-> "none", input |-> "none",
               prompt |-> "none", calls |-> 0, response |-> "pending",
               fault |-> "none", parse |-> "none", regex |-> "none",
               steps |-> <<>>, items |-> 0, usage |-> ZeroUsage]

NoFan == [pc |-> "idle", topics |-> 0, titles |-> 0, quotes |-> 0,
          usage |-> ZeroUsage, raised |-> FALSE]

AnalyzeInit ==
    /\ analyzers = [a \in Analyzers |-> NoAnalyzer]
    /\ fan = NoFan

\* ---- the bot registry and _resolve_retry_bot_instance ----

\* the platform ids an instance can be registered under: the adapter's own
\* name, a second Matrix platform, and a platform of another protocol
RegisteredIds == {"matrix", "m2", "qq"}

\* the platform_id values a task can record: those, one with surrounding
\* whitespace, and the empty string or None
RecordedIds == RegisteredIds \cup {" matrix ", ""}

\* platform.meta().name of the platform registered under p
Protocol(p) == IF p \in {"matrix", "m2"} THEN "matrix" ELSE "other"

NoRTask == [pc |-> "none", recorded |-> "", platform_id |-> "", via |-> "none"]

ResolveInit ==
    /\ bots = <<>>
    /\ rtask = NoRTask

\* ---- generate_image_report ----

\* render_strategies, in the listed order
Strategies == <<"png_ultra", "jpeg_100_ultra", "jpeg_95_high", "jpeg_80">>

\* the markup _render_html_template can give
Markups == {"html_a", "html_b"}

NoRender == [pc |-> "idle", html |-> "none", tried |-> <<>>, outcomes |-> <<>>,
             url |-> "none", ret_html |-> "none"]

RenderInit == render = NoRender

\* ---- PDFInstaller ----

\* bound: the install commands that can be in flight together
MaxCallers == 2

CallerIds == 1..MaxCallers

\* _install_status as the class body sets it
NoInstallStatus == [in_progress |-> FALSE, completed |-> FALSE, failed |-> FALSE,
                    error_message |-> "none"]

NoCaller == [pc |-> "idle", reply |-> "none"]

InstallInit ==
    /\ install_status = NoInstallStatus
    /\ bg_tasks = <<>>
    /\ callers = [c \in CallerIds |-> NoCaller]

StopNoteInit == stop_seen = [called |-> FALSE, tasks |-> {}, queue |-> <<>>]

SentNoteInit == prefix_sends = [t \in TaskIds |-> 0]

RetryInit ==
    /\ running = FALSE
    /\ worker_task = None
    /\ queue = <<>>
    /\ retry_count = [t \in TaskIds |-> 0]
    /\ dlq = <<>>
    /\ report_generator = TRUE
    /\ workers = [w \in WorkerIds |-> NoWorker]
    /\ timers = {}
    /\ stop_pc = "idle"
    /\ created = 0
    /\ nfail = [t \in TaskIds |-> 0]
    /\ nsucc = [t \in TaskIds |-> 0]
    /\ nsched = [t \in TaskIds |-> 0]
    /\ lastdelay = [t \in TaskIds |-> 0]
    /\ fbcalls = [t \in TaskIds |-> 0]
    /\ fbsends = [t \in TaskIds |-> 0]
    /\ fbfailed = {}
    /\ dropped = {}

Init == RetryInit /\ SchedulerInit /\ RunInit /\ DeliverInit /\ AnalyzeInit /\ ResolveInit /\ RenderInit /\ InstallInit /\ StopNoteInit /\ SentNoteInit

\* ---- start() / add_task() ----

\* The slots no worker coroutine runs in, and the one the next worker takes
FreeSlots == {w \in WorkerIds : ~Live(w)}
NewWorker == CHOOSE w \in FreeSlots : \A v \in FreeSlots : w <= v

\* The state start() leaves: (running, worker_task, workers)
StartEffect ==
    IF running
    THEN UNCHANGED <<running, worker_task, workers>>
    ELSE /\ running' = TRUE
         /\ worker_task' = NewWorker
         /\ workers' = [workers EXCEPT ![NewWorker] =
                           [pc |-> "start", task |-> None, delay |-> 0, cancel |-> FALSE,
                            raised |-> FALSE]]

Start ==
    /\ running \/ FreeSlots # {}
    /\ StartEffect
    /\ UNCHANGED <<queue, retry_count, dlq, report_generator, timers, stop_pc,
                   created, ghost>>
    /\ UNCHANGED not_retry_vars

\* What add_task does when the manager is not running
AddTaskNoStart == UNCHANGED <<running, worker_task, workers>>
AddTaskStart == StartEffect

\* The queue after add_task put task t
AddTaskPut(q, t) == Append(q, t)

\* add_task as its callers see it: what it does to the retry manager
AddTaskCall ==
    /\ created < MaxTasks
    /\ running \/ FreeSlots # {}
    /\ AddTaskStart
    /\ created' = created + 1
    /\ retry_count' = [retry_count EXCEPT ![created + 1] = 0]
    /\ queue' = AddTaskPut(queue, created + 1)
    /\ UNCHANGED <<dlq, report_generator, timers, stop_pc, ghost>>

AddTask ==
    /\ AddTaskCall
    /\ UNCHANGED not_retry_vars

\* ---- _worker() ----

\* "while self.running" at the head of the loop, and the done callback
\* _handle_worker_task_done when the coroutine returns
LoopHead(w) ==
    /\ workers' = [workers EXCEPT ![w] =
                      [pc |-> IF running THEN "get" ELSE "done",
                       task |-> None, delay |-> 0, cancel |-> FALSE, raised |-> FALSE]]
    /\ worker_task' = IF ~running /\ worker_task = w THEN None ELSE worker_task

WorkerBegin(w) ==
    /\ workers[w].pc = "start"
    /\ ~workers[w].cancel
    /\ LoopHead(w)
    /\ UNCHANGED <<running, queue, retry_count, dlq, report_generator, timers, stop_pc, created, ghost>>
    /\ UNCHANGED not_retry_vars

DequeuePeek(w, J) ==
    /\ workers[w].pc = "get"
    /\ ~workers[w].cancel
    /\ queue # <<>>
    /\ \E jitter \in J, r \in BOOLEAN :
          workers' = [workers EXCEPT ![w] =
                         [pc |-> "process", task |-> Head(queue),
                          delay |-> Delay(retry_count[Head(queue)], jitter),
                          cancel |-> FALSE, raised |-> r]]
    /\ UNCHANGED <<running, worker_task, queue, retry_count, dlq, report_generator,
                   timers, stop_pc, created, ghost>>
    /\ UNCHANGED not_retry_vars

\* task = await self.queue.get() returns the head of the queue
Dequeue(w, J) ==
    /\ workers[w].pc = "get"
    /\ ~workers[w].cancel
    /\ queue # <<>>
    /\ \E jitter \in J, r \in BOOLEAN :
          workers' = [workers EXCEPT ![w] =
                         [pc |-> "process", task |-> Head(queue),
                          delay |-> Delay(retry_count[Head(queue)], jitter),
                          cancel |-> FALSE, raised |-> r]]
    /\ queue' = Tail(queue)
    /\ UNCHANGED <<running, worker_task, retry_count, dlq, report_generator,
                   timers, stop_pc, created, ghost>>
    /\ UNCHANGED not_retry_vars

WorkerGet(w) == Dequeue(w, CoarseJitters)
WorkerGetJitter(w) == Dequeue(w, Jitters)

NewTimer(t, d) == [task |-> t, delay |-> d, cancel |-> FALSE, tracked |-> TRUE,
                   awaited |-> FALSE]

\* _schedule_requeue_after_delay(task, delay), called by the worker
ScheduleRequeueDropped(t, d) ==
    /\ dropped' = dropped \cup {t}
    /\ UNCHANGED <<timers, nsched, lastdelay>>
ScheduleRequeueAfterDelay(t, d) ==
    IF running
    THEN /\ timers' = timers \cup {NewTimer(t, d)}
         /\ nsched' = [nsched EXCEPT ![t] = @ + 1]
         /\ lastdelay' = [lastdelay EXCEPT ![t] = d]
         /\ UNCHANGED dropped
    ELSE /\ dropped' = dropped \cup {t}
         /\ UNCHANGED <<timers, nsched, lastdelay>>

\* Whether a task whose retry count is now rc gets another attempt
MayRetryInclusive(rc) == rc <= MaxRetries
MayRetry(rc) == rc < MaxRetries

\* Where the worker goes after it scheduled the requeue: back to the loop head
AfterScheduleBlocking(w, r) ==
    /\ workers' = [workers EXCEPT ![w].pc = "sleep", ![w].raised = r]
    /\ UNCHANGED worker_task
AfterSchedule(w, r) == LoopHead(w)

\* self._dlq.append(task)
DlqAppendTwice(t) == Append(Append(dlq, t), t)
DlqAppend(t) == Append(dlq, t)

\* How many send_message calls _send_fallback_text starts on path f
FallbackSendsRetried(f) == IF f = "send" THEN 2 ELSE 0
FallbackSends(f) == IF report_generator /\ f = "send" THEN 1 ELSE 0

\* The worker after "await self._process_task(task)" returned or raised
WorkerProcessAs(w, o) ==
    /\ workers[w].pc = "process"
    /\ ~workers[w].cancel
    /\ LET t == workers[w].task
           d == workers[w].delay
           r == workers[w].raised
       IN IF (o \in ExceptionOutcomes) # r THEN FALSE ELSE
          IF r /\ ProcessTaskRaises(o)
          THEN \* except Exception of the loop: log, await asyncio.sleep(1)
               /\ workers' = [workers EXCEPT ![w].pc = "sleep", ![w].raised = r]
               /\ UNCHANGED <<worker_task, retry_count, dlq, timers, ghost>>
          ELSE IF ProcessTask(o)
          THEN /\ nsucc' = [nsucc EXCEPT ![t] = @ + 1]
               /\ LoopHead(w)
               /\ UNCHANGED <<retry_count, dlq, timers, nfail, nsched, lastdelay,
                              fbcalls, fbsends, fbfailed, dropped>>
          ELSE /\ nfail' = [nfail EXCEPT ![t] = @ + 1]
               /\ retry_count' = [retry_count EXCEPT ![t] = @ + 1]
               /\ IF MayRetry(retry_count[t] + 1)
                  THEN /\ ScheduleRequeueAfterDelay(t, d)
                       /\ AfterSchedule(w, r)
                       /\ UNCHANGED <<dlq, nsucc, fbcalls, fbsends, fbfailed>>
                  ELSE \* dead letter, _send_fallback_text up to its first await;
                       \* self._notify_failure does not exist: AttributeError,
                       \* caught by the loop, which sleeps 1 s
                       /\ dlq' = DlqAppend(t)
                       /\ fbcalls' = [fbcalls EXCEPT ![t] = @ + 1]
                       /\ \E n \in {FallbackSends(f) : f \in FallbackOutcomes} :
                             /\ fbsends' = [fbsends EXCEPT ![t] = @ + n]
                             /\ workers' = [workers EXCEPT
                                   ![w].pc = IF n > 0
                                             THEN "fallback" ELSE "sleep",
                                   ![w].raised = r]
                       /\ UNCHANGED <<worker_task, timers, nsucc, nsched, lastdelay,
                                      fbfailed, dropped>>
    /\ UNCHANGED <<running, queue, report_generator, stop_pc, created>>

\* One outcome for each way the worker can see a call end that raised inside
\* (r) or did not: whether the exception escaped, and the value returned
EndOf(o) == <<ProcessTaskRaises(o), ProcessTask(o)>>
OutcomeKinds(r) ==
    LET S == {x \in ProcessOutcomes : (x \in ExceptionOutcomes) = r}
    IN {CHOOSE x \in S : EndOf(x) = k : k \in {EndOf(x) : x \in S}}

WorkerProcess(w) ==
    \E o \in OutcomeKinds(workers[w].raised) :
       WorkerProcessAs(w, o) /\ UNCHANGED not_retry_vars

\* client.send_message of _send_fallback_text returned (ok) or raised (logged);
\* then self._notify_failure raises AttributeError and the loop sleeps 1 s
WorkerFallbackDone(w) ==
    /\ workers[w].pc = "fallback"
    /\ ~workers[w].cancel
    /\ \E ok \in BOOLEAN :
          fbfailed' = IF ok THEN fbfailed ELSE fbfailed \cup {workers[w].task}
    /\ workers' = [workers EXCEPT ![w].pc = "sleep", ![w].raised = FALSE]
    /\ UNCHANGED <<running, worker_task, queue, retry_count, dlq, report_generator,
                   timers, stop_pc, created, nfail, nsucc, nsched,
                   lastdelay, fbcalls, fbsends, dropped>>
    /\ UNCHANGED not_retry_vars

WorkerWakeDies(w) ==
    /\ workers[w].pc = "sleep"
    /\ ~workers[w].cancel
    /\ workers' = [workers EXCEPT ![w] =
                      [pc |-> "done", task |-> None, delay |-> 0, cancel |-> FALSE,
                       raised |-> FALSE]]
    /\ worker_task' = IF worker_task = w THEN None ELSE worker_task
    /\ running' = FALSE
    /\ UNCHANGED <<queue, retry_count, dlq, report_generator, timers, stop_pc, created, ghost>>
    /\ UNCHANGED not_retry_vars

\* asyncio.sleep(1) of the loop's exception handler is over
WorkerWake(w) ==
    /\ workers[w].pc = "sleep"
    /\ ~workers[w].cancel
    /\ LoopHead(w)
    /\ UNCHANGED <<running, queue, retry_count, dlq, report_generator, timers, stop_pc, created, ghost>>
    /\ UNCHANGED not_retry_vars

\* ---- stop() ----

\* stop() from "self.worker_task = None" to its next await or its return
StopAfterWorker ==
    /\ worker_task' = None
    /\ timers' = {IF tm.tracked
                  THEN [tm EXCEPT !.cancel = TRUE, !.awaited = TRUE]
                  ELSE tm : tm \in timers}
    /\ stop_pc' = IF \E tm \in timers : tm.tracked THEN "await_timers" ELSE "idle"

StopCall ==
    /\ stop_pc = "idle"
    /\ running' = FALSE
    /\ IF worker_task # None
       THEN /\ workers' = [workers EXCEPT ![worker_task].cancel = TRUE]
            /\ stop_pc' = "await_worker"
            /\ UNCHANGED <<worker_task, timers>>
       ELSE /\ StopAfterWorker
            /\ UNCHANGED workers
    /\ UNCHANGED <<queue, retry_count, dlq, report_generator, created,
                   ghost>>

Stop == StopCall /\ UNCHANGED not_retry_vars

\* The cancelled worker runs: CancelledError at its await, the loop breaks (or
\* the error leaves the handler's sleep), the done callback runs, and the
\* stop() that awaits this worker continues
WorkerCancelled(w) ==
    /\ Live(w)
    /\ workers[w].cancel
    /\ workers' = [workers EXCEPT ![w] =
                      [pc |-> "done", task |-> None, delay |-> 0, cancel |-> FALSE,
                       raised |-> FALSE]]
    /\ dropped' = IF workers[w].pc = "process"
                  THEN dropped \cup {workers[w].task} ELSE dropped
    /\ IF stop_pc = "await_worker"
       THEN StopAfterWorker
       ELSE /\ worker_task' = IF worker_task = w THEN None ELSE worker_task
            /\ UNCHANGED <<timers, stop_pc>>
    /\ UNCHANGED <<running, queue, retry_count, dlq, report_generator, created, nfail, nsucc, nsched, lastdelay, fbcalls, fbsends,
                   fbfailed>>
    /\ UNCHANGED not_retry_vars

\* asyncio.gather over the cancelled timers is done: _requeue_tasks.clear()
StopAfterTimers ==
    /\ stop_pc = "await_timers"
    /\ ~ \E tm \in timers : tm.awaited
    /\ timers' = {[tm EXCEPT !.tracked = FALSE] : tm \in timers}
    /\ stop_pc' = "idle"
    /\ UNCHANGED <<running, worker_task, queue, retry_count, dlq, report_generator,
                   workers, created, ghost>>
    /\ UNCHANGED not_retry_vars

\* ---- _requeue_after_delay() ----

\* asyncio.sleep(delay) is over
RequeueAfterDelay(tm) ==
    /\ ~tm.cancel
    /\ timers' = timers \ {tm}
    /\ IF running
       THEN /\ queue' = Append(queue, tm.task)
            /\ UNCHANGED dropped
       ELSE /\ dropped' = dropped \cup {tm.task}
            /\ UNCHANGED queue
    /\ UNCHANGED <<running, worker_task, retry_count, dlq, report_generator,
                   workers, stop_pc, created, nfail, nsucc, nsched,
                   lastdelay, fbcalls, fbsends, fbfailed>>
    /\ UNCHANGED not_retry_vars

\* CancelledError in the sleep: logged and re-raised
RequeueCancelled(tm) ==
    /\ tm.cancel
    /\ timers' = timers \ {tm}
    /\ dropped' = dropped \cup {tm.task}
    /\ UNCHANGED <<running, worker_task, queue, retry_count, dlq, report_generator,
                   workers, stop_pc, created, nfail, nsucc, nsched,
                   lastdelay, fbcalls, fbsends, fbfailed>>
    /\ UNCHANGED not_retry_vars

Next ==
    \/ Start
    \/ AddTask
    \/ Stop
    \/ StopAfterTimers
    \/ \E w \in WorkerIds :
          \/ WorkerBegin(w)
          \/ WorkerGet(w)
          \/ WorkerProcess(w)
          \/ WorkerFallbackDone(w)
          \/ WorkerWake(w)
          \/ WorkerCancelled(w)
    \/ \E tm \in timers :
          \/ RequeueAfterDelay(tm)
          \/ RequeueCancelled(tm)

Spec == Init /\ [][Next]_vars

\* the tasks a worker is processing or a delayed-requeue timer holds
InFlight ==
    {t \in TaskIds :
        \/ \E w \in WorkerIds : workers[w].pc = "process" /\ workers[w].task = t
        \/ \E tm \in timers : tm.task = t}

\* stop(), with a note of what it found
StopNoted ==
    /\ StopCall
    /\ stop_seen' = [called |-> TRUE, tasks |-> InFlight, queue |-> queue]
    /\ UNCHANGED not_stop_note_vars

\* The engine with that note kept
NextNoted ==
    \/ Start
    \/ AddTask
    \/ StopNoted
    \/ StopAfterTimers
    \/ \E w \in WorkerIds :
          \/ WorkerBegin(w)
          \/ WorkerGet(w)
          \/ WorkerProcess(w)
          \/ WorkerFallbackDone(w)
          \/ WorkerWake(w)
          \/ WorkerCancelled(w)
    \/ \E tm \in timers :
          \/ RequeueAfterDelay(tm)
          \/ RequeueCancelled(tm)

StopSpec == Init /\ [][NextNoted]_vars

\* Whether the first send_message of _process_task (the prefix text) returned
\* on the way o: the image send, or the return True, comes after it
PrefixDelivered(o) == o \in {"image_exc", "ok"}

\* The worker after _process_task, with a note of the prefix texts sent
WorkerProcessNoted(w) ==
    \E o \in ProcessOutcomes :
       /\ WorkerProcessAs(w, o)
       /\ prefix_sends' =
             [prefix_sends EXCEPT ![workers[w].task] =
                 IF PrefixDelivered(o) THEN @ + 1 ELSE @]
       /\ UNCHANGED not_sent_note_vars

\* The engine with that note kept
NextSent ==
    \/ Start
    \/ AddTask
    \/ Stop
    \/ StopAfterTimers
    \/ \E w \in WorkerIds :
          \/ WorkerBegin(w)
          \/ WorkerGet(w)
          \/ WorkerProcessNoted(w)
          \/ WorkerFallbackDone(w)
          \/ WorkerWake(w)
          \/ WorkerCancelled(w)
    \/ \E tm \in timers :
          \/ RequeueAfterDelay(tm)
          \/ RequeueCancelled(tm)

SentSpec == Init /\ [][NextSent]_vars

\* The engine while nobody calls stop(): the event loop runs every ready
\* coroutine, every sleep ends and every awaited external call returns.
NextLive ==
    \/ Start
    \/ AddTask
    \/ \E w \in WorkerIds :
          \/ WorkerBegin(w)
          \/ WorkerGet(w)
          \/ WorkerProcess(w)
          \/ WorkerFallbackDone(w)
          \/ WorkerWake(w)
    \/ \E tm \in timers : RequeueAfterDelay(tm)

LiveSpec ==
    /\ Init
    /\ [][NextLive]_vars
    /\ \A w \in WorkerIds :
          /\ WF_vars(WorkerBegin(w))
          /\ WF_vars(WorkerGet(w))
          /\ WF_vars(WorkerProcess(w))
          /\ WF_vars(WorkerFallbackDone(w))
          /\ WF_vars(WorkerWake(w))
    /\ \A t \in TaskIds :
          WF_vars(\E tm \in timers : tm.task = t /\ RequeueAfterDelay(tm))

\* The same engine with the jitter drawn from the whole interval
NextJitter ==
    \/ Start
    \/ AddTask
    \/ \E w \in WorkerIds :
          \/ WorkerBegin(w)
          \/ WorkerGetJitter(w)
          \/ WorkerProcess(w)
          \/ WorkerFallbackDone(w)
          \/ WorkerWake(w)
    \/ \E tm \in timers : RequeueAfterDelay(tm)

JitterSpec == Init /\ [][NextJitter]_vars

\* ---- where a task is ----

InQueue(t) == \E i \in 1..Len(queue) : queue[i] = t
InTimer(t) == \E tm \in timers : tm.task = t
InDlq(t) == \E i \in 1..Len(dlq) : dlq[i] = t
Held(t) == \E w \in WorkerIds : Live(w) /\ workers[w].task = t
Created(t) == t <= created

\* ---- C1 ----
\* C1: retry_count of every task equals the number of its failed
\* _process_task calls (one increment per failure, no other change), never
\* exceeds max_retries, and a task whose count reached max_retries is in the
\* dead-letter list and neither in the queue nor in a requeue timer.
C1_RetryBound ==
    \A t \in TaskIds :
       /\ retry_count[t] = nfail[t]
       /\ retry_count[t] <= MaxRetries
       /\ retry_count[t] = MaxRetries =>
             InDlq(t) /\ ~InQueue(t) /\ ~InTimer(t)

C1_Witness ==
    \E t \in TaskIds : retry_count[t] = MaxRetries /\ InDlq(t) /\ nfail[t] = MaxRetries

\* ---- C2 ----
\* C2: while the manager is not stopped and worker and timers are scheduled
\* fairly, every task add_task enqueued eventually is finished: sent, or
\* dead-lettered with the fallback routine run, and held nowhere any more.
Finished(t) ==
    /\ nsucc[t] = 1 \/ (InDlq(t) /\ fbcalls[t] = 1)
    /\ ~InQueue(t) /\ ~InTimer(t) /\ ~Held(t)

C2_EventuallyFinished == \A t \in TaskIds : Created(t) ~> Finished(t)

C2_Witness ==
    /\ created = MaxTasks
    /\ \E t \in TaskIds : Finished(t) /\ nsucc[t] = 1 /\ retry_count[t] > 0
    /\ \E t \in TaskIds : Finished(t) /\ InDlq(t)

\* ---- C3 ----
\* C3: a task that waits in a requeue timer is held by no worker, and a worker
\* sleeps inside its loop only in the error handler after a dead-lettering,
\* never for a backoff delay: the worker is back at the queue while the timer
\* runs.
C3_NoHeadOfLineBlocking ==
    \A w \in WorkerIds :
       /\ \A tm \in timers : Live(w) => workers[w].task # tm.task
       /\ workers[w].pc = "sleep" => InDlq(workers[w].task)

\* task 1 failed and waits in its timer while the worker processes task 2
C3_Witness ==
    /\ \E tm \in timers : tm.task = 1 /\ ~tm.cancel
    /\ \E w \in WorkerIds : workers[w].pc = "process" /\ workers[w].task = 2
    /\ retry_count[2] = 0

\* ---- C4 ----
\* C4 as claimed: a dead-lettered task (max_retries failed calls) had
\* max_retries delayed requeues scheduled before its dead-letter append.
C4_Claimed == \A t \in TaskIds : InDlq(t) => nsched[t] = MaxRetries

\* C4 amended: a task is dead-lettered after exactly max_retries failed calls
\* and exactly max_retries - 1 scheduled requeues; it is appended once, the
\* fallback routine runs once and only for a dead-lettered task, and no
\* requeue is scheduled or pending after the append.
C4_EventSequence ==
    \A t \in TaskIds :
       /\ nsched[t] <= MaxRetries - 1
       /\ nsched[t] <= nfail[t]
       /\ InDlq(t) =>
             /\ nfail[t] = MaxRetries
             /\ nsched[t] = MaxRetries - 1
             /\ Count(dlq, t) = 1
             /\ fbcalls[t] = 1
             /\ ~InTimer(t)
       /\ fbcalls[t] > 0 => InDlq(t)

C4_Witness ==
    \E t \in TaskIds :
       InDlq(t) /\ nsched[t] = MaxRetries - 1 /\ fbcalls[t] = 1 /\ ~Held(t)

\* ---- C5 ----
JitterOk(j) == JitterMin <= j /\ j <= JitterMax

\* C5 as claimed: the delay of a pending requeue is base * 2^retry_count +
\* jitter with retry_count the task's count after the increment.
C5_Claimed ==
    \A tm \in timers :
       JitterOk(tm.delay - BackoffBase * Pow2(retry_count[tm.task]))

\* C5 amended: the delay of the k-th requeue of a task (scheduled after its
\* k-th failure, k = 1..max_retries-1) is base * 2^(k-1) + jitter, the
\* exponent being the retry count before the increment.
C5_DelayFormula ==
    /\ \A tm \in timers :
          /\ retry_count[tm.task] \in 1..(MaxRetries - 1)
          /\ JitterOk(tm.delay - BackoffBase * Pow2(retry_count[tm.task] - 1))
    /\ \A t \in TaskIds :
          nsched[t] > 0 => JitterOk(lastdelay[t] - BackoffBase * Pow2(nsched[t] - 1))

\* ... and each delay scheduled for a task is greater than the one before.
C5_Increasing ==
    \A t \in TaskIds : nsched'[t] # nsched[t] => lastdelay'[t] > lastdelay[t]

C5_Backoff == []C5_DelayFormula /\ [][C5_Increasing]_vars

\* a second requeue with the smallest jitter after a first with the largest
C5_Witness ==
    \E tm \in timers :
       /\ nsched[tm.task] = 2
       /\ tm.delay = BackoffBase * 2 + JitterMin
       /\ lastdelay[tm.task] = tm.delay

\* ---- C6 ----
\* C6: the dead-letter list holds exactly the tasks that exhausted their
\* retries, each once, and a dead-lettered task is not in the queue, not in a
\* timer and not in a worker's processing attempt (a worker holds it only
\* while finishing the iteration that dead-lettered it).
C6_DeadLetterOnce ==
    /\ Len(dlq) = Cardinality({t \in TaskIds : retry_count[t] = MaxRetries})
    /\ \A t \in TaskIds :
          InDlq(t) =>
             /\ Count(dlq, t) = 1
             /\ ~InQueue(t)
             /\ ~InTimer(t)
             /\ \A w \in WorkerIds :
                   workers[w].task = t => workers[w].pc \in {"fallback", "sleep"}

\* two dead-lettered tasks, the worker back at the queue
C6_Witness ==
    /\ Len(dlq) = 2
    /\ \E w \in WorkerIds : workers[w].pc = "get"

\* ---- C7 ----
\* C7 as claimed: every dead-lettered task has exactly one fallback send
\* attempt.
C7_Claimed ==
    \A t \in TaskIds :
       (InDlq(t) /\ ~Held(t)) => fbsends[t] = 1

\* C7 amended: _send_fallback_text is called exactly once for a dead-lettered
\* task and for no other; it attempts at most one send; a task whose fallback
\* send raised stays in the dead-letter list, once, and is not requeued.
C7_FallbackOnce ==
    \A t \in TaskIds :
       /\ fbcalls[t] = (IF InDlq(t) THEN 1 ELSE 0)
       /\ fbsends[t] <= fbcalls[t]
       /\ t \in fbfailed =>
             /\ fbsends[t] = 1
             /\ Count(dlq, t) = 1
             /\ ~InQueue(t)
             /\ ~InTimer(t)

\* the fallback send of a dead-lettered task raised and the worker went on
C7_Witness ==
    \E t \in fbfailed : InDlq(t) /\ ~Held(t) /\ fbsends[t] = 1

\* ---- C8 ----
\* C8: a _process_task call that raised an exception inside counts as a failed
\* attempt: retry_count and the failure count of its task grow by one, nothing
\* is counted as sent, and the worker goes on - to the queue, or to the
\* dead-letter handling of that task (it returns only if the manager stopped).
C8_Step ==
    \A w \in WorkerIds :
       (/\ workers[w].pc = "process" /\ workers[w].raised
        /\ ~workers[w].cancel /\ workers'[w].pc # "process") =>
          LET t == workers[w].task IN
          /\ retry_count'[t] = retry_count[t] + 1
          /\ nfail'[t] = nfail[t] + 1
          /\ nsucc' = nsucc
          /\ \/ workers'[w].pc = "get"
             \/ workers'[w].pc \in {"fallback", "sleep"} /\ InDlq(t)'
             \/ workers'[w].pc = "done" /\ ~running

C8_ExceptionIsFailure == [][C8_Step]_vars

\* the last call for a task raised inside: the task is dead-lettered with
\* MaxRetries failures counted, and the worker is on its way to the loop head
C8_Witness ==
    \E w \in WorkerIds :
       /\ workers[w].pc \in {"fallback", "sleep"} /\ workers[w].raised
       /\ InDlq(workers[w].task)
       /\ retry_count[workers[w].task] = MaxRetries
       /\ nfail[workers[w].task] = MaxRetries

\* ---- C9 ----
\* C9: an add_task step appends exactly its one new task, with retry_count 0,
\* to the queue, leaves the manager running, and creates a worker exactly when
\* the manager was not running.
C9_Step ==
    created' # created =>
       /\ created' = created + 1
       /\ queue' = Append(queue, created')
       /\ retry_count'[created'] = 0
       /\ running'
       /\ IF running
          THEN UNCHANGED worker_task
          ELSE /\ ~Live(worker_task')
               /\ workers'[worker_task'].pc = "start"

\* ... a running manager has a worker that is alive and not cancelled, to
\* process what is in the queue; no task is in the queue twice or before
\* add_task created it.
C9_State ==
    /\ running => \E w \in WorkerIds : Live(w) /\ ~workers[w].cancel
    /\ \A t \in TaskIds :
          /\ Count(queue, t) <= 1
          /\ InQueue(t) => Created(t)

C9_AddTask == []C9_State /\ [][C9_Step]_vars

\* task 1, requeued once, was left in the queue by stop(); add_task of task 2
\* (or a start() before it) created the only worker there is now
C9_Witness ==
    /\ queue = <<1, 2>>
    /\ retry_count[1] = 1
    /\ running
    /\ worker_task \in WorkerIds
    /\ \A w \in WorkerIds : Live(w) <=> (w = worker_task /\ workers[w].pc = "start")

\* ---- C10 ----
\* a stop() call returns in this step
C10_StopReturns ==
    /\ stop_pc' = "idle"
    /\ stop_pc # "idle" \/ (running /\ ~running')

\* C10: when stop() returns, no delayed-requeue coroutine is alive (so none can
\* put a task into the queue later) and _requeue_tasks is empty.
C10_NoTimerAfterStop == [][C10_StopReturns => timers' = {}]_vars

\* ---- C11 ----
\* C11: when stop() returns, running is false and no worker coroutine is alive.
C11_StoppedAfterStop ==
    [][C10_StopReturns => (~running' /\ \A w \in WorkerIds : ~Live(w)')]_vars

\* ---- C12 ----
\* the workers that can take a task from the queue: alive and not cancelled
Consumers == {w \in WorkerIds : Live(w) /\ ~workers[w].cancel}

\* C12: at most one worker is alive and able to dequeue at any time.
C12_SingleConsumer == Cardinality(Consumers) <= 1

\* ---- C13 ----
\* C13: the dead-letter list has a fixed capacity: its length stays below the
\* number of tasks the manager has accepted when all of them fail terminally.
C13_DlqBounded == Len(dlq) < MaxTasks

\* ======================================================================
\* AutoScheduler: start_scheduler / stop_scheduler / restart_scheduler and
\* _scheduler_loop (auto_scheduler.py:117-190).  A cancelled loop task is
\* suspended at an await when cancel() is called, and neither the loop's
\* "except Exception" nor _run_auto_analysis catches CancelledError, so the
\* cancellation always ends the task: stop_scheduler takes it out at once.
\* ======================================================================

\* strptime(HH:MM).replace(year=now.year, month=now.month, day=now.day)
TodayAt(now, hhmm) == (now \div TicksPerDay) * TicksPerDay + hhmm

\* target_time after "if now >= target_time: target_time += timedelta(days=1)"
TargetTimeStrict(now, hhmm) ==
    IF now > TodayAt(now, hhmm)
    THEN TodayAt(now, hhmm) + TicksPerDay ELSE TodayAt(now, hhmm)
TargetTime(now, hhmm) ==
    IF now >= TodayAt(now, hhmm)
    THEN TodayAt(now, hhmm) + TicksPerDay ELSE TodayAt(now, hhmm)

\* wait_seconds = (target_time - now).total_seconds()
WaitSeconds(now, hhmm) == TargetTime(now, hhmm) - now

LiveLoop(l) == loops[l].pc \in {"head", "sleep", "run", "skip", "pause"}
FreeLoops == {l \in LoopIds : ~LiveLoop(l)}
NewLoop == CHOOSE l \in FreeLoops : \A k \in FreeLoops : l <= k

\* start_scheduler up to its "await asyncio.sleep(10)"
StartSchedulerEffect ==
    IF enable_auto_analysis
    THEN starters' = starters + 1
    ELSE UNCHANGED starters

StartScheduler ==
    /\ starters < MaxStarters
    /\ StartSchedulerEffect
    /\ UNCHANGED <<clock, auto_analysis_time, enable_auto_analysis, scheduler_task,
                   last_execution_date, loops, nruns>>
    /\ stopped' = FALSE
    /\ UNCHANGED not_loop_vars

\* the sleep(10) of a start_scheduler call is over:
\* self.scheduler_task = asyncio.create_task(self._scheduler_loop())
StarterWake ==
    /\ starters > 0
    /\ FreeLoops # {}
    /\ starters' = starters - 1
    /\ loops' = [loops EXCEPT ![NewLoop] = [pc |-> "head", target |-> 0]]
    /\ scheduler_task' = NewLoop
    /\ UNCHANGED <<clock, auto_analysis_time, enable_auto_analysis,
                   last_execution_date, nruns, stopped>>
    /\ UNCHANGED not_loop_vars

\* stop_scheduler: cancels self.scheduler_task if it is not done
StopSchedulerEffect ==
    IF scheduler_task # None /\ LiveLoop(scheduler_task)
    THEN loops' = [loops EXCEPT ![scheduler_task] = [pc |-> "done", target |-> 0]]
    ELSE UNCHANGED loops

StopScheduler ==
    /\ StopSchedulerEffect
    /\ UNCHANGED <<clock, auto_analysis_time, enable_auto_analysis, scheduler_task,
                   last_execution_date, starters, nruns>>
    /\ stopped' = TRUE
    /\ UNCHANGED not_loop_vars

\* restart_scheduler: stop_scheduler, then start_scheduler if enabled
RestartScheduler ==
    /\ starters < MaxStarters
    /\ StopSchedulerEffect
    /\ StartSchedulerEffect
    /\ UNCHANGED <<clock, auto_analysis_time, enable_auto_analysis, scheduler_task,
                   last_execution_date, nruns>>
    /\ stopped' = ~enable_auto_analysis
    /\ UNCHANGED not_loop_vars

\* the head of "while True": now, target_time, wait_seconds, asyncio.sleep
LoopCompute(l) ==
    /\ loops[l].pc = "head"
    /\ loops' = [loops EXCEPT ![l] =
                    [pc |-> "sleep",
                     target |-> clock + WaitSeconds(clock, auto_analysis_time)]]
    /\ UNCHANGED <<clock, auto_analysis_time, enable_auto_analysis, scheduler_task,
                   last_execution_date, starters, nruns, stopped>>
    /\ UNCHANGED not_loop_vars

\* asyncio.sleep(wait_seconds) is over
LoopWake(l) ==
    /\ loops[l].pc = "sleep"
    /\ clock >= loops[l].target
    /\ IF ~enable_auto_analysis
       THEN \* break
            /\ loops' = [loops EXCEPT ![l] = [pc |-> "done", target |-> 0]]
            /\ UNCHANGED nruns
       ELSE IF last_execution_date = Date(loops[l].target)
       THEN \* already executed today: asyncio.sleep(3600), continue
            /\ loops' = [loops EXCEPT ![l].pc = "skip"]
            /\ UNCHANGED nruns
       ELSE \* await self._run_auto_analysis()
            /\ nruns[Date(clock)] < MaxRuns
            /\ loops' = [loops EXCEPT ![l].pc = "run"]
            /\ nruns' = [nruns EXCEPT ![Date(clock)] = @ + 1]
    /\ UNCHANGED <<clock, auto_analysis_time, enable_auto_analysis, scheduler_task,
                   last_execution_date, starters, stopped>>
    /\ UNCHANGED not_loop_vars

\* _run_auto_analysis returned: self.last_execution_date = target_time.date()
LoopRunDone(l) ==
    /\ loops[l].pc = "run"
    /\ last_execution_date' = Date(loops[l].target)
    /\ loops' = [loops EXCEPT ![l] = [pc |-> "head", target |-> 0]]
    /\ UNCHANGED <<clock, auto_analysis_time, enable_auto_analysis, scheduler_task,
                   starters, nruns, stopped>>
    /\ UNCHANGED not_loop_vars

\* asyncio.sleep(3600) of the skip branch is over: continue
LoopSkipWake(l) ==
    /\ loops[l].pc = "skip"
    /\ loops' = [loops EXCEPT ![l] = [pc |-> "head", target |-> 0]]
    /\ UNCHANGED <<clock, auto_analysis_time, enable_auto_analysis, scheduler_task,
                   last_execution_date, starters, nruns, stopped>>
    /\ UNCHANGED not_loop_vars

\* Time passes.  A sleep ends when its time has come: the clock does not
\* move past a loop that is due.
Tick ==
    /\ clock + 1 < MaxDays * TicksPerDay
    /\ \A l \in LoopIds : ~(loops[l].pc = "sleep" /\ loops[l].target <= clock)
    /\ clock' = clock + 1
    /\ UNCHANGED <<auto_analysis_time, enable_auto_analysis, scheduler_task,
                   last_execution_date, loops, starters, nruns, stopped>>
    /\ UNCHANGED not_loop_vars

\* The host edits the configuration the scheduler reads through config_manager
SetAnalysisTime(t) ==
    /\ t # auto_analysis_time
    /\ auto_analysis_time' = t
    /\ UNCHANGED <<clock, enable_auto_analysis, scheduler_task,
                   last_execution_date, loops, starters, nruns, stopped>>
    /\ UNCHANGED not_loop_vars

SetEnableAutoAnalysis ==
    /\ enable_auto_analysis' = ~enable_auto_analysis
    /\ UNCHANGED <<clock, auto_analysis_time, scheduler_task,
                   last_execution_date, loops, starters, nruns, stopped>>
    /\ UNCHANGED not_loop_vars

LoopNext ==
    \/ StartScheduler
    \/ StarterWake
    \/ StopScheduler
    \/ RestartScheduler
    \/ Tick
    \/ SetEnableAutoAnalysis
    \/ \E t \in Times : SetAnalysisTime(t)
    \/ \E l \in LoopIds :
          \/ LoopCompute(l)
          \/ LoopWake(l)
          \/ LoopRunDone(l)
          \/ LoopSkipWake(l)

LoopSpec == Init /\ [][LoopNext]_vars

\* The scheduler when restart commands come one at a time, each after the
\* previous start's 10 s delay is over: at most one loop task is alive.
RestartSerial == starters = 0 /\ RestartScheduler

SerialNext ==
    \/ RestartSerial
    \/ StarterWake
    \/ Tick
    \/ SetEnableAutoAnalysis
    \/ \E t \in Times : SetAnalysisTime(t)
    \/ \E l \in LoopIds :
          \/ LoopCompute(l)
          \/ LoopWake(l)
          \/ LoopRunDone(l)
          \/ LoopSkipWake(l)

SerialSpec == Init /\ [][SerialNext]_vars

\* stop_scheduler called while no start_scheduler call is in its delay
StopSerial == starters = 0 /\ StopScheduler

LoopRaiseExits(l) ==
    /\ \/ loops[l].pc = "head"
       \/ loops[l].pc = "sleep" /\ clock >= loops[l].target
    /\ loops' = [loops EXCEPT ![l] = [pc |-> "done", target |-> 0]]
    /\ UNCHANGED <<clock, auto_analysis_time, enable_auto_analysis, scheduler_task,
                   last_execution_date, starters, nruns, stopped>>
    /\ UNCHANGED not_loop_vars

\* an exception in the iteration - at its head, where the configured time is
\* read and parsed, or after the sleep, where the enable switch is read -
\* reaches "except Exception": log, await asyncio.sleep(300)
LoopRaise(l) ==
    /\ \/ loops[l].pc = "head"
       \/ loops[l].pc = "sleep" /\ clock >= loops[l].target
    /\ loops' = [loops EXCEPT ![l] = [pc |-> "pause", target |-> 0]]
    /\ UNCHANGED <<clock, auto_analysis_time, enable_auto_analysis, scheduler_task,
                   last_execution_date, starters, nruns, stopped>>
    /\ UNCHANGED not_loop_vars

\* asyncio.sleep(300) of the handler is over: the next iteration of "while True"
LoopPauseWake(l) ==
    /\ loops[l].pc = "pause"
    /\ loops' = [loops EXCEPT ![l] = [pc |-> "head", target |-> 0]]
    /\ UNCHANGED <<clock, auto_analysis_time, enable_auto_analysis, scheduler_task,
                   last_execution_date, starters, nruns, stopped>>
    /\ UNCHANGED not_loop_vars

\* The scheduler with exceptions inside the loop's iterations, the commands
\* coming one at a time
FaultyNext ==
    \/ RestartSerial
    \/ StopSerial
    \/ StarterWake
    \/ Tick
    \/ SetEnableAutoAnalysis
    \/ \E t \in Times : SetAnalysisTime(t)
    \/ \E l \in LoopIds :
          \/ LoopCompute(l)
          \/ LoopWake(l)
          \/ LoopRunDone(l)
          \/ LoopSkipWake(l)
          \/ LoopRaise(l)
          \/ LoopPauseWake(l)

FaultySpec == Init /\ [][FaultyNext]_vars

\* ---- C16 ----
\* C16: on every calendar day _run_auto_analysis is started at most once.
C16_OncePerDay == \A d \in Days : nruns[d] <= 1

\* ---- C17 ----
\* the step in which a loop computes its target and goes to sleep
C17_Computes(l) == loops[l].pc = "head" /\ loops'[l].pc = "sleep"

\* the computed target is today's HH:MM when now is strictly before it and
\* tomorrow's HH:MM otherwise, and the wait is strictly positive
C17_Step ==
    \A l \in LoopIds :
       C17_Computes(l) =>
          LET t == loops'[l].target
              today == (Date(clock) - 1) * TicksPerDay + auto_analysis_time
          IN /\ t = IF clock < today THEN today ELSE today + TicksPerDay
             /\ t - clock > 0
             /\ t % TicksPerDay = auto_analysis_time

\* C17: for every now and configured HH:MM the target is today's HH:MM when
\* now is strictly before it and tomorrow's HH:MM otherwise; the wait is > 0.
C17_NextFireTime == [][C17_Step]_vars

\* a loop that computed at exactly HH:MM sleeps until tomorrow's HH:MM
C17_Witness ==
    \E l \in LoopIds :
       /\ loops[l].pc = "sleep"
       /\ clock % TicksPerDay = auto_analysis_time
       /\ loops[l].target = clock + TicksPerDay

\* ======================================================================
\* AutoScheduler._run_auto_analysis and _perform_auto_analysis_for_group
\* (auto_scheduler.py:192-426), the 'test' action of analysis_settings
\* (main.py:1130-1146) and the analyze_group_daily command (main.py:182-330).
\* ======================================================================

\* the calls of group g that hold a reference to lock k (their local "lock")
Referrers(g, k) == {c \in CallSlots : calls[g][c].lock = k}

\* lock k of group g is not held
LockFree(g, k) == ~ \E c \in CallSlots : calls[g][c].pc = "body" /\ calls[g][c].lock = k

\* asyncio.Lock(): an object no call of the group refers to
FreshLock(g) ==
    CHOOSE k \in LockIds :
       /\ Referrers(g, k) = {}
       /\ \A j \in LockIds : Referrers(g, j) = {} => k <= j

\* lock = self._group_locks.get(key); if lock is None: lock = asyncio.Lock()
LookupLockFresh(g) == FreshLock(g)
LookupLock(g) == IF group_locks[g] # None THEN group_locks[g] ELSE FreshLock(g)

\* _perform_auto_analysis_for_group(g) from its first line to "async with
\* lock": the lock is looked up or created and stored, and taken if it is free
EnterGroup(g, c) ==
    LET k == LookupLock(g) IN
    /\ group_locks' = [group_locks EXCEPT ![g] = k]
    /\ calls' = [calls EXCEPT ![g][c] =
                    [pc |-> IF LockFree(g, k) THEN "body" ELSE "lock",
                     lock |-> k, outcome |-> "none"]]

\* self._group_locks once the calls are cs: the WeakValueDictionary drops the
\* lock of a group when the last call referring to it has returned
Collected(cs) ==
    [g \in Groups |->
       IF \E c \in CallSlots : cs[g][c].lock = group_locks[g]
       THEN group_locks[g] ELSE None]

\* how the body of one group analysis can end: it returns (report sent, or an
\* early return), or it raises an exception, which the body itself catches
BodyOutcomes == {"ok", "error"}

\* sem after "async with sem" is left
ReleaseSemLeaks(n) == n
ReleaseSem(n) == n + 1

\* What the end of group g's task with an error or a timeout does to the
\* calls: the exception is caught in the task (lines 269-273, 422), and
\* gather(return_exceptions=True) would not pass it on either
AfterFailureCancels(cs, g) ==
    [h \in Groups |->
       IF h # g /\ cs[h][Sched].pc \in {"sem", "lock", "body"}
       THEN [cs[h] EXCEPT ![Sched] = [pc |-> "done", lock |-> None,
                                      outcome |-> "cancelled"]]
       ELSE cs[h]]
AfterFailure(cs, g) == cs

Failure(o) == o \in {"error", "timeout"}

\* the calls after the scheduled task of group g ended with outcome o
TaskEnds(g, o) ==
    LET cs == [calls EXCEPT ![g][Sched] =
                  [pc |-> "done", lock |-> None, outcome |-> o]]
    IN IF Failure(o) THEN AfterFailure(cs, g) ELSE cs

\* _run_auto_analysis up to "await asyncio.gather(...)"
RunStart ==
    /\ run_pc = "idle"
    /\ \E eg \in SUBSET Groups, raw \in RawConcurrent :
          IF eg = {}
          THEN \* "if not enabled_groups: return"
               UNCHANGED <<config_max_concurrent, max_concurrent, sem, run_pc,
                           enabled_groups, calls>>
          ELSE /\ run_pc' = "gather"
               /\ enabled_groups' = eg
               /\ config_max_concurrent' = raw
               /\ max_concurrent' = GetMaxConcurrentTasks(raw)
               /\ sem' = GetMaxConcurrentTasks(raw)
               /\ calls' = [g \in Groups |->
                              [calls[g] EXCEPT ![Sched] =
                                  IF g \in eg
                                  THEN [pc |-> "sem", lock |-> None, outcome |-> "none"]
                                  ELSE NoCall]]
    /\ UNCHANGED <<group_locks, manual>>
    /\ UNCHANGED not_run_vars

\* safe_perform_analysis(g): "async with sem" is entered, then wait_for and
\* the call of _perform_auto_analysis_for_group
SchedEnter(g) ==
    /\ run_pc = "gather"
    /\ calls[g][Sched].pc = "sem"
    /\ sem > 0
    /\ sem' = sem - 1
    /\ EnterGroup(g, Sched)
    /\ UNCHANGED <<config_max_concurrent, max_concurrent, run_pc, enabled_groups, manual>>
    /\ UNCHANGED not_run_vars

\* the 'test' action calls _perform_auto_analysis_for_group(group_id); the
\* call takes the first slot no test call of the group is in
TestEnter(g, c) ==
    /\ c \in TestSlots
    /\ calls[g][c].pc = "none"
    /\ \A b \in TestSlots : calls[g][b].pc = "none" => c <= b
    /\ EnterGroup(g, c)
    /\ UNCHANGED <<config_max_concurrent, max_concurrent, sem, run_pc,
                   enabled_groups, manual>>
    /\ UNCHANGED not_run_vars

\* a call waiting in "async with lock" gets the lock
LockGranted(g, c) ==
    /\ calls[g][c].pc = "lock"
    /\ LockFree(g, calls[g][c].lock)
    /\ calls' = [calls EXCEPT ![g][c].pc = "body"]
    /\ UNCHANGED <<config_max_concurrent, max_concurrent, sem, run_pc,
                   enabled_groups, group_locks, manual>>
    /\ UNCHANGED not_run_vars

\* the body ends: the lock is released, the call returns; the scheduled
\* task then leaves "async with sem" and is done
BodyFinish(g, c) ==
    /\ calls[g][c].pc = "body"
    /\ IF c = Sched
       THEN /\ \E o \in BodyOutcomes : calls' = TaskEnds(g, o)
            /\ sem' = ReleaseSem(sem)
       ELSE /\ calls' = [calls EXCEPT ![g][c] = NoCall]
            /\ UNCHANGED sem
    /\ group_locks' = Collected(calls')
    /\ UNCHANGED <<config_max_concurrent, max_concurrent, run_pc,
                   enabled_groups, manual>>
    /\ UNCHANGED not_run_vars

\* wait_for(..., timeout=1200) expires: the call is cancelled where it waits
\* (for the lock, or inside the body, which releases the lock), TimeoutError
\* is caught and the task leaves "async with sem"
Timeout(g) ==
    /\ calls[g][Sched].pc \in {"lock", "body"}
    /\ calls' = TaskEnds(g, "timeout")
    /\ sem' = ReleaseSem(sem)
    /\ group_locks' = Collected(calls')
    /\ UNCHANGED <<config_max_concurrent, max_concurrent, run_pc,
                   enabled_groups, manual>>
    /\ UNCHANGED not_run_vars

\* the run is over: its tasks, its semaphore and its locals are gone
RunEnds ==
    /\ run_pc' = "idle"
    /\ config_max_concurrent' = [kind |-> "unset", val |-> 0]
    /\ max_concurrent' = None
    /\ sem' = 0
    /\ enabled_groups' = {}
    /\ calls' = [g \in Groups |-> [calls[g] EXCEPT ![Sched] = NoCall]]
    /\ group_locks' = Collected(calls')

\* gather returned: every task of the run is done; the results are counted
RunFinish ==
    /\ run_pc = "gather"
    /\ \A g \in enabled_groups : calls[g][Sched].pc = "done"
    /\ RunEnds
    /\ UNCHANGED manual
    /\ UNCHANGED not_run_vars

\* stop_scheduler cancels the loop task while it awaits gather: gather
\* cancels every task of the run, each leaves its "async with" blocks
CancelRun ==
    /\ run_pc = "gather"
    /\ RunEnds
    /\ UNCHANGED manual
    /\ UNCHANGED not_run_vars

\* analyze_group_daily for group g: its fetch-analyze-deliver cycle starts
\* (main.py:228) and ends; it takes no lock
ManualStart(g) ==
    /\ ~manual[g]
    /\ manual' = [manual EXCEPT ![g] = TRUE]
    /\ UNCHANGED <<config_max_concurrent, max_concurrent, sem, run_pc,
                   enabled_groups, calls, group_locks>>
    /\ UNCHANGED not_run_vars

ManualFinish(g) ==
    /\ manual[g]
    /\ manual' = [manual EXCEPT ![g] = FALSE]
    /\ UNCHANGED <<config_max_concurrent, max_concurrent, sem, run_pc,
                   enabled_groups, calls, group_locks>>
    /\ UNCHANGED not_run_vars

RunNext ==
    \/ RunStart
    \/ RunFinish
    \/ CancelRun
    \/ \E g \in Groups :
          \/ SchedEnter(g)
          \/ Timeout(g)
          \/ \E c \in CallSlots :
                \/ TestEnter(g, c)
                \/ LockGranted(g, c)
                \/ BodyFinish(g, c)

\* scheduled runs and test calls
RunSpec == Init /\ [][RunNext]_vars

\* ... together with the analyze_group_daily command
CommandNext ==
    \/ RunNext
    \/ \E g \in Groups :
          \/ ManualStart(g)
          \/ ManualFinish(g)

CommandSpec == Init /\ [][CommandNext]_vars

\* a task of the run takes a free semaphore slot, or its 1200 s timer fires
TaskStep == \E g \in Groups : SchedEnter(g) \/ Timeout(g)

\* The run under the event loop's scheduling: as long as a task can take a
\* slot or a timer is pending one of them happens, and gather returns once
\* all tasks are done.  Nothing is assumed about the analyses themselves or
\* about the test calls.
RunLiveSpec ==
    /\ Init
    /\ [][RunNext]_vars
    /\ WF_run_vars(RunFinish)
    /\ WF_run_vars(TaskStep)

\* ---- C14 ----
\* the calls of group g that execute the body
InBody(g) == {c \in CallSlots : calls[g][c].pc = "body"}

\* C14: at most one call per group executes the fetch-analyze-send body, and
\* every call that holds or waits for a group's lock uses the lock object
\* registered for the group.
C14_GroupMutex ==
    \A g \in Groups :
       /\ Cardinality(InBody(g)) <= 1
       /\ \A c \in CallSlots :
             calls[g][c].pc \in {"lock", "body"} => calls[g][c].lock = group_locks[g]

\* the scheduled task of a group is in the body, a test call waits for its lock
C14_Witness ==
    \E g \in Groups, c \in TestSlots :
       /\ calls[g][Sched].pc = "body"
       /\ calls[g][c].pc = "lock"
       /\ calls[g][c].lock = calls[g][Sched].lock

\* ---- C15 ----
\* C15: a group's on-demand analysis (analyze_group_daily) and a scheduled or
\* test analysis of the same group never run their cycles at the same time.
C15_NoOverlapWithCommand ==
    \A g \in Groups : ~(manual[g] /\ InBody(g) # {})

\* ---- C18 ----
\* the groups whose task of the run is inside the semaphore
InsideSem == {g \in Groups : calls[g][Sched].pc \in {"lock", "body"}}

\* during a run at most max_concurrent (at least 1) analyses are inside the
\* semaphore, and the run has one task per eligible group
C18_State ==
    run_pc = "gather" =>
       /\ max_concurrent >= 1
       /\ Cardinality(InsideSem) <= max_concurrent
       /\ {g \in Groups : calls[g][Sched].pc # "none"} = enabled_groups

\* the width a run starts with: the setting if it is a number of at least 1,
\* 1 if it is a smaller number, 5 if it is missing or unusable
C18_Width ==
    (run_pc = "idle" /\ run_pc' = "gather") =>
       /\ config_max_concurrent'.kind # "int" => max_concurrent' = 5
       /\ config_max_concurrent'.kind = "int" =>
             max_concurrent' = IF config_max_concurrent'.val >= 1
                               THEN config_max_concurrent'.val ELSE 1
       /\ sem' = max_concurrent'

\* C18: within one scheduled run the number of group analyses inside the
\* semaphore never exceeds max_concurrent_tasks, which is at least 1
\* (default 5); one task is created per eligible group.
C18_BoundedFanOut == []C18_State /\ [][C18_Width]_vars

\* a run of width 1: one group is inside the semaphore, another waits
C18_Witness ==
    /\ run_pc = "gather"
    /\ max_concurrent = 1
    /\ \E g, h \in Groups :
          /\ calls[g][Sched].pc = "body"
          /\ calls[h][Sched].pc = "sem"

\* ---- C19 ----
\* the step in which group g's task of the run ends by an error or a timeout
C19_Fails(g) ==
    /\ calls[g][Sched].pc \in {"lock", "body"}
    /\ calls'[g][Sched].pc = "done"
    /\ Failure(calls'[g][Sched].outcome)

\* the scheduled task of group g is created and not done
InProgress(g) == calls[g][Sched].pc \in {"sem", "lock", "body"}

\* the failure of one group's task changes nothing about a sibling's task
C19_Step ==
    \A g \in Groups :
       C19_Fails(g) => \A h \in Groups \ {g} : calls'[h][Sched] = calls[h][Sched]

\* a task leaves the run only done, or with the whole run
C19_Leaves ==
    \A h \in Groups :
       (InProgress(h) /\ ~InProgress(h)') =>
          (calls'[h][Sched].pc = "done" /\ calls'[h][Sched].outcome # "cancelled")
             \/ run_pc' = "idle"

\* ... and a task that ended keeps no sibling out of the semaphore
C19_NotBlocked ==
    \A h \in Groups :
       (calls[h][Sched].pc = "sem" /\ InsideSem = {}) => sem >= 1

\* C19: an error or a timeout of one group's task neither cancels nor blocks
\* nor changes a sibling's task of the same run.
C19_FailureIsolation == []C19_NotBlocked /\ [][C19_Step /\ C19_Leaves]_vars

\* one group failed or timed out and a sibling of the same run finished
C19_Witness ==
    /\ run_pc = "gather"
    /\ \E g, h \in Groups :
          /\ calls[g][Sched].outcome = "timeout"
          /\ calls[h][Sched].outcome = "ok"

\* ---- C20 ----
\* every slot of the semaphore is free or taken by a task inside it, and a
\* task that is done refers to no lock
C20_Released ==
    /\ run_pc = "gather" => sem + Cardinality(InsideSem) = max_concurrent
    /\ \A g \in Groups : calls[g][Sched].pc = "done" => calls[g][Sched].lock = None

\* a task that is done stays as it ended for the rest of the run
C20_NoRetry ==
    \A g \in Groups :
       (calls[g][Sched].pc = "done" /\ run_pc = "gather" /\ run_pc' = "gather")
          => calls'[g][Sched] = calls[g][Sched]

\* C20: every task of a run ends (normally, by error or by timeout), holding
\* no semaphore slot and no lock afterwards, and the run ends: gather returns,
\* which it does when all tasks are done, unless the run is cancelled.
C20_RunTerminates ==
    /\ []C20_Released
    /\ [][C20_NoRetry]_vars
    /\ (run_pc = "gather") ~> (run_pc = "idle")

\* a run of width 1 ended in which one group timed out and another finished
C20_Witness ==
    /\ run_pc = "gather"
    /\ max_concurrent = 1
    /\ sem = 1
    /\ \E g, h \in Groups :
          /\ calls[g][Sched].outcome = "timeout"
          /\ calls[h][Sched].outcome \in BodyOutcomes

\* ---- the analysis call: fetch, message gate, analysis, delivery ----

Busy == flow.pc \notin {"idle", "done"}

Did(e, kind) == [e EXCEPT ![kind] = @ + 1]

\* _perform_auto_analysis_for_group inside the group lock, up to the fetch of
\* the messages; it returns at once if the bot manager is not ready
SchedBegin ==
    /\ ~Busy
    /\ \E ready \in BOOLEAN :
          flow' = [NoFlow EXCEPT !.path = "sched",
                                 !.pc = IF ready THEN "fetch" ELSE "done"]
    /\ effects' = NoEffects
    /\ UNCHANGED retry_vars
    /\ UNCHANGED not_deliver_vars

\* analyze_group_daily up to the fetch of the messages; it returns at once if
\* the platform is not Matrix, there is no group, the group is not allowed or
\* no bot instance is found
CmdBegin ==
    /\ ~Busy
    /\ \E allowed \in BOOLEAN :
          flow' = [NoFlow EXCEPT !.path = "cmd",
                                 !.pc = IF allowed THEN "fetch" ELSE "done"]
    /\ effects' = NoEffects
    /\ UNCHANGED retry_vars
    /\ UNCHANGED not_deliver_vars

\* "if len(messages) < min_threshold"
BelowThresholdNever(n, t) == FALSE
BelowThreshold(n, t) == n < t

\* fetch_group_messages returned n messages (0: none, or the fetch failed);
\* then the threshold check and the call of analyze_messages
FetchDone ==
    /\ flow.pc = "fetch"
    /\ \E n \in MessageCounts, raw \in RawThreshold :
          LET t == GetMinMessagesThreshold(raw) IN
          IF n = 0
          THEN /\ flow' = [flow EXCEPT !.pc = "done"]
               /\ UNCHANGED effects
          ELSE IF BelowThreshold(n, t)
          THEN /\ flow' = [flow EXCEPT !.pc = "done", !.n = n, !.threshold = t]
               /\ UNCHANGED effects
          ELSE /\ flow' = [flow EXCEPT !.pc = "analyze", !.n = n, !.threshold = t]
               /\ effects' = Did(effects, "analyze")
    /\ UNCHANGED retry_vars
    /\ UNCHANGED not_deliver_vars

\* What analyze_messages gives its caller: a complete result, a falsy one
\* (total failure), or an exception
AnalysisResults == {"ok", "falsy", "raised"}

\* "if not analysis_result" (and the except of the caller)
AnalysisFailedNever(r) == FALSE
AnalysisFailed(r) == r \in {"falsy", "raised"}

\* The text report: awaited _send_text_message in the scheduled path, one
\* reply of the command in the other
TextReport(f) ==
    /\ flow' = [f EXCEPT !.pc = IF f.path = "sched" THEN "send_text" ELSE "done"]
    /\ effects' = Did(effects, "text")

\* analyze_messages returned; on success the report of the configured format
\* is started
AnalyzeDone ==
    /\ flow.pc = "analyze"
    /\ \E r \in AnalysisResults, fmt \in Formats, playwright \in BOOLEAN :
          LET f == [flow EXCEPT !.result = r] IN
          IF AnalysisFailed(r)
          THEN /\ flow' = [f EXCEPT !.pc = "done"]
               /\ UNCHANGED effects
          ELSE IF fmt = "image"
          THEN /\ flow' = [f EXCEPT !.pc = "render"]
               /\ effects' = Did(effects, "render")
          ELSE IF fmt = "pdf"
          THEN IF playwright
               THEN /\ flow' = [f EXCEPT !.pc = "render_pdf"]
                    /\ effects' = Did(effects, "render")
               ELSE IF f.path = "sched"
               THEN TextReport(f)
               ELSE \* "PDF is not available": return
                    /\ flow' = [f EXCEPT !.pc = "done"]
                    /\ UNCHANGED effects
          ELSE TextReport(f)
    /\ UNCHANGED retry_vars
    /\ UNCHANGED not_deliver_vars

\* What generate_image_report returns: (url, html), (None, html), (None, None)
RenderResults == {"image", "markup", "nothing"}

\* await self.retry_manager.add_task(html_content, analysis_result, ...)
Enqueue(f) ==
    /\ AddTaskCall
    /\ flow' = [f EXCEPT !.pc = "done"]
    /\ effects' = Did(effects, "enqueued")

\* The image could not be rendered but the markup exists.  The scheduled path
\* knows its platform id (the fetch gave it) and the command does not ask.
HandoffMarkupAsText(f) ==
    /\ TextReport(f)
    /\ UNCHANGED retry_vars
HandoffMarkup(f) == Enqueue(f)

\* generate_image_report returned
RenderDone ==
    /\ flow.pc = "render"
    /\ \E rr \in RenderResults :
          LET f == [flow EXCEPT !.render = rr] IN
          IF rr = "image"
          THEN /\ flow' = [f EXCEPT !.pc = "send_image"]
               /\ effects' = Did(effects, "image")
               /\ UNCHANGED retry_vars
          ELSE IF rr = "markup"
          THEN HandoffMarkup(f)
          ELSE /\ TextReport(f)
               /\ UNCHANGED retry_vars
    /\ UNCHANGED not_deliver_vars

\* How _send_image_message ends: True; False after its "see the link" text;
\* False from its except or for want of a platform
ImageResults == {"sent", "failed", "error"}

\* The image was rendered and not sent: the scheduled path falls back to the
\* text report, the command enqueues a retry task (html_content is set
\* whenever image_url is)
AfterImageFailure(f, e) ==
    IF f.path = "sched"
    THEN /\ flow' = [f EXCEPT !.pc = "send_text"]
         /\ effects' = Did(e, "text")
         /\ UNCHANGED retry_vars
    ELSE /\ AddTaskCall
         /\ flow' = [f EXCEPT !.pc = "done"]
         /\ effects' = Did(e, "enqueued")

\* _send_image_message returned
SendImageDone ==
    /\ flow.pc = "send_image"
    /\ \E ir \in ImageResults :
          LET f == [flow EXCEPT !.image = ir]
              noticed == IF ir = "failed" THEN Did(effects, "notice") ELSE effects
          IN IF ir = "sent"
             THEN /\ flow' = [f EXCEPT !.pc = "done"]
                  /\ UNCHANGED <<effects, retry_vars>>
             ELSE AfterImageFailure(f, noticed)
    /\ UNCHANGED not_deliver_vars

\* generate_pdf_report returned a path, or None (or raised, scheduled path)
RenderPdfDone ==
    /\ flow.pc = "render_pdf"
    /\ \E ok \in BOOLEAN :
          IF ok
          THEN /\ flow' = [flow EXCEPT !.pc = "send_pdf"]
               /\ effects' = Did(effects, "pdf")
          ELSE TextReport(flow)
    /\ UNCHANGED retry_vars
    /\ UNCHANGED not_deliver_vars

\* _send_pdf_file returned: the command falls back to text if it was not sent
SendPdfDone ==
    /\ flow.pc = "send_pdf"
    /\ \E sent \in BOOLEAN :
          IF sent \/ flow.path = "sched"
          THEN /\ flow' = [flow EXCEPT !.pc = "done"]
               /\ UNCHANGED effects
          ELSE TextReport(flow)
    /\ UNCHANGED retry_vars
    /\ UNCHANGED not_deliver_vars

\* _send_text_message returned
SendTextDone ==
    /\ flow.pc = "send_text"
    /\ flow' = [flow EXCEPT !.pc = "done"]
    /\ UNCHANGED effects
    /\ UNCHANGED retry_vars
    /\ UNCHANGED not_deliver_vars

DeliverNext ==
    \/ SchedBegin
    \/ CmdBegin
    \/ FetchDone
    \/ AnalyzeDone
    \/ RenderDone
    \/ SendImageDone
    \/ RenderPdfDone
    \/ SendPdfDone
    \/ SendTextDone

DeliverSpec == Init /\ [][DeliverNext]_vars

\* ---- C21 ----
\* C21: whenever the fetched messages are fewer than min_messages_threshold,
\* the call is over and has made no effect: analyze_messages was not called,
\* no report was rendered or sent, nothing was enqueued for retry - in the
\* scheduled path and in the command path.
C21_MinMessageGate ==
    (flow.path # "none" /\ flow.n < flow.threshold) =>
       /\ flow.pc = "done"
       /\ effects = NoEffects
       /\ flow.result = "none" /\ flow.render = "none" /\ flow.image = "none"

\* 40 messages against the default threshold of 50, scheduled path
C21_Witness ==
    /\ flow.path = "sched" /\ flow.pc = "done"
    /\ flow.n = 40 /\ flow.threshold = DefaultMinMessages

\* ---- C22 ----
\* C22: when analyze_messages returned a falsy result (total failure), the
\* call is over with nothing but that analysis done: no image or PDF was
\* rendered, no image, PDF or text report was sent, no retry task enqueued.
C22_TotalFailure ==
    flow.result = "falsy" =>
       /\ flow.pc = "done"
       /\ effects = Did(NoEffects, "analyze")

C22_Witness ==
    /\ flow.path = "cmd" /\ flow.result = "falsy"
    /\ flow.n >= flow.threshold

\* ---- C23 ----
\* C23: whenever the image was rendered and the send of it failed (the markup
\* is available then), a retry task has been enqueued - whichever path.
C23_RetryOnSendFailure ==
    (flow.render = "image" /\ flow.image \in {"failed", "error"}) =>
       effects.enqueued = 1

\* ---- C24 ----
\* C24: in the scheduled path, a render that failed with markup leaves the
\* call over with exactly one retry task enqueued (appended to the retry
\* queue) and no text report sent; a render that failed without markup leads
\* to exactly one text report and touches the retry manager not at all.
C24_State ==
    flow.path = "sched" =>
       /\ flow.render = "markup" =>
             /\ flow.pc = "done"
             /\ effects.enqueued = 1 /\ effects.text = 0 /\ effects.notice = 0
       /\ flow.render = "nothing" =>
             /\ flow.pc \in {"send_text", "done"}
             /\ effects.text = 1 /\ effects.enqueued = 0

C24_Step ==
    (flow.path = "sched" /\ flow.pc = "render") =>
       /\ flow'.render = "markup" =>
             /\ created' = created + 1
             /\ queue' = Append(queue, created')
       /\ flow'.render = "nothing" => UNCHANGED retry_vars

C24_RenderFailureHandoff == []C24_State /\ [][C24_Step]_vars

C24_Witness ==
    /\ flow.path = "sched" /\ flow.render = "markup" /\ flow.pc = "done"
    /\ effects.enqueued = 1 /\ effects.text = 0
    /\ queue # <<>>

\* ---- C25 ----
\* C25: while stop_scheduler has returned and start_scheduler has not been
\* called again, no scheduler loop goes into _run_auto_analysis.
C25_RunStarts == \E l \in LoopIds : loops[l].pc # "run" /\ loops'[l].pc = "run"

C25_NoRunAfterStop == [][C25_RunStarts => ~stopped]_vars

\* ---- the analyzers and analyze_all_concurrent: actions ----

\* the coroutine returns (a list of n objects, usage u)
Returned(rec, n, u) ==
    [rec EXCEPT !.pc = "done", !.status = "returned", !.items = n, !.usage = u]

\* the coroutine ends with an exception
Raised(rec) == [rec EXCEPT !.pc = "done", !.status = "raised"]

\* analyze_user_titles and analyze_golden_quotes catch Exception around their
\* whole body; TopicAnalyzer.analyze_topics is taken as the one entry point
\* that may let an exception out
Wrapped(a) == a \in {"titles", "quotes"}

\* what the entry point's preparation of its input gives
Preps == {"eligible", "ineligible", "error"}

\* what build_prompt gives: a prompt, a whitespace-only string, an empty
\* string or None, or an exception
Prompts == {"text", "blank", "empty", "error"}

PromptEmptyStrict(p) == p = "empty"

\* not prompt or not prompt.strip()
PromptEmpty(p) == p \in {"empty", "blank"}

\* BaseAnalyzer.analyze up to its await of call_provider_with_retry
AnalyzeCall(rec, prompt) ==
    LET r == [rec EXCEPT !.prompt = prompt]
    IN  IF prompt = "error" THEN Returned(r, 0, ZeroUsage)
        ELSE IF PromptEmpty(prompt) THEN Returned(r, 0, ZeroUsage)
        ELSE [r EXCEPT !.pc = "llm", !.calls = @ + 1]

\* the gather's task for analyzer a runs from its start to its first await
AnalyzerBegin(a) ==
    /\ fan.pc = "gather"
    /\ analyzers[a].pc = "start"
    /\ \E prep \in Preps, prompt \in Prompts :
          LET r == [analyzers[a] EXCEPT !.input = prep]
          IN  analyzers' = [analyzers EXCEPT ![a] =
                 CASE prep = "error" ->
                         IF Wrapped(a) THEN Returned(r, 0, ZeroUsage) ELSE Raised(r)
                   [] prep = "ineligible" -> Returned(r, 0, ZeroUsage)
                   [] OTHER -> AnalyzeCall(r, prompt)]
    /\ UNCHANGED fan
    /\ UNCHANGED not_analyze_vars

\* what call_provider_with_retry gives: None after its retries, or a response
Responses == {"none", "ok"}

\* what parse_json_response gives: (True, data), (True, []) or (False, None)
ParseResults == {"data", "empty", "fail"}

\* what extract_with_regex gives: data or nothing
RegexResults == {"data", "nothing"}

\* where an unexpected exception is raised after the response: nowhere, in
\* the extraction of the usage or the text (before the parse), or in the
\* making of the objects from the data found
Faults == {"none", "usage", "objects"}

DegradeRegexFirst(parse, regex) ==
    IF regex = "data"
       THEN [steps |-> <<"regex">>, parse |-> "untried", regex |-> regex, found |-> TRUE]
       ELSE [steps |-> <<"regex", "parse">>, parse |-> parse, regex |-> regex,
             found |-> parse = "data"]

\* the parse, then the regex fallback unless the parse gave data
Degrade(parse, regex) ==
    IF parse = "data"
       THEN [steps |-> <<"parse">>, parse |-> parse, regex |-> "untried", found |-> TRUE]
       ELSE [steps |-> <<"parse", "regex">>, parse |-> parse, regex |-> regex,
             found |-> regex = "data"]

\* BaseAnalyzer.analyze from the provider's answer to its return
AnalyzeFinish(rec, resp, u, fault, parse, regex, objs) ==
    IF resp = "none"
       THEN Returned([rec EXCEPT !.response = "none"], 0, ZeroUsage)
    ELSE IF fault = "usage"
       THEN Returned([rec EXCEPT !.response = "ok", !.fault = "usage"], 0, ZeroUsage)
    ELSE LET d == Degrade(parse, regex)
             r == [rec EXCEPT !.response = "ok", !.parse = d.parse,
                              !.regex = d.regex, !.steps = d.steps]
         IN  IF d.found /\ fault = "objects"
                THEN Returned([r EXCEPT !.fault = "objects"], 0, ZeroUsage)
                ELSE Returned(r, IF d.found THEN objs ELSE 0, u)

\* the provider call of analyzer a ends and the analyzer runs to its return
AnalyzerResponse(a) ==
    /\ fan.pc = "gather"
    /\ analyzers[a].pc = "llm"
    /\ \E resp \in Responses, u \in Usages, fault \in Faults,
          parse \in ParseResults, regex \in RegexResults, objs \in 0..1 :
          analyzers' = [analyzers EXCEPT ![a] =
                           AnalyzeFinish(@, resp, u, fault, parse, regex, objs)]
    /\ UNCHANGED fan
    /\ UNCHANGED not_analyze_vars

\* analyze_all_concurrent up to its await of the gather: the three coroutines
\* are handed to asyncio.gather in one call
FanStart ==
    /\ fan.pc \in {"idle", "done"}
    /\ fan' = [NoFan EXCEPT !.pc = "gather"]
    /\ analyzers' = [a \in Analyzers |-> [NoAnalyzer EXCEPT !.pc = "start"]]
    /\ UNCHANGED not_analyze_vars

\* what results[i] adds: nothing for an exception, the pair otherwise
Contribution(rec) ==
    IF rec.status = "raised"
       THEN [items |-> 0, usage |-> ZeroUsage]
       ELSE [items |-> rec.items, usage |-> rec.usage]

TotalUsageFromParts(t, u, q) ==
    <<t[1] + u[1] + q[1], t[2] + u[2] + q[2],
      (t[1] + u[1] + q[1]) + (t[2] + u[2] + q[2])>>

\* total_usage
TotalUsage(t, u, q) ==
    <<t[1] + u[1] + q[1], t[2] + u[2] + q[2], t[3] + u[3] + q[3]>>

AnalyzeAllConcurrentFailFast(res) ==
    IF \E a \in Analyzers : res[a].status = "raised"
       THEN [NoFan EXCEPT !.pc = "done"]
       ELSE [pc |-> "done", topics |-> res["topics"].items,
             titles |-> res["titles"].items, quotes |-> res["quotes"].items,
             usage |-> TotalUsage(res["topics"].usage, res["titles"].usage,
                                  res["quotes"].usage),
             raised |-> FALSE]

\* analyze_all_concurrent from the gather's results to its return
AnalyzeAllConcurrent(res) ==
    LET t == Contribution(res["topics"])
        u == Contribution(res["titles"])
        q == Contribution(res["quotes"])
    IN  [pc |-> "done", topics |-> t.items, titles |-> u.items,
         quotes |-> q.items, usage |-> TotalUsage(t.usage, u.usage, q.usage),
         raised |-> FALSE]

\* the gather returns once all three coroutines have ended
FanCollect ==
    /\ fan.pc = "gather"
    /\ \A a \in Analyzers : analyzers[a].pc = "done"
    /\ fan' = AnalyzeAllConcurrent(analyzers)
    /\ UNCHANGED analyzers
    /\ UNCHANGED not_analyze_vars

AnalyzeNext ==
    \/ FanStart
    \/ \E a \in Analyzers : AnalyzerBegin(a)
    \/ \E a \in Analyzers : AnalyzerResponse(a)
    \/ FanCollect

AnalyzeSpec == Init /\ [][AnalyzeNext]_vars

\* ---- C26 ----
\* C26: the usage analyze_all_concurrent returns is, in each of its three
\* components (prompt, completion, total), the sum of what the three
\* analyzers returned, where an analyzer that raised counts as (0, 0, 0).
C26_Counted(a) ==
    IF analyzers[a].status = "raised" THEN <<0, 0, 0>> ELSE analyzers[a].usage

C26_Aggregation ==
    fan.pc = "done" =>
       \A i \in 1..3 :
          fan.usage[i] = C26_Counted("topics")[i] + C26_Counted("titles")[i]
                            + C26_Counted("quotes")[i]

C26_Witness ==
    /\ fan.pc = "done"
    /\ analyzers["topics"].status = "raised"
    /\ analyzers["titles"].usage = <<MaxTokens, 1, MaxTokens + 2>>
    /\ analyzers["quotes"].usage = <<0, 1, MaxTokens + 2>>
    /\ fan.usage = <<MaxTokens, 2, 2 * MaxTokens + 4>>

\* ---- C27 ----
\* C27: the three analyzers are started together (none waits for another to
\* end before it starts); an analyzer that raised adds an empty list and zero
\* usage to the result while the other two add exactly what they returned;
\* and analyze_all_concurrent returns, it does not raise.
C27_StartedTogether ==
    fan.pc = "gather" => \A a \in Analyzers : analyzers[a].pc # "idle"

C27_Kept(a, items) ==
    items = (IF analyzers[a].status = "raised" THEN 0 ELSE analyzers[a].items)

C27_Isolation ==
    /\ C27_StartedTogether
    /\ fan.pc = "done" =>
          /\ ~fan.raised
          /\ C27_Kept("topics", fan.topics)
          /\ C27_Kept("titles", fan.titles)
          /\ C27_Kept("quotes", fan.quotes)
          /\ C26_Aggregation

C27_Witness ==
    /\ fan.pc = "done" /\ ~fan.raised
    /\ analyzers["topics"].status = "raised"
    /\ analyzers["titles"].items = 1 /\ fan.titles = 1
    /\ analyzers["quotes"].items = 1 /\ fan.quotes = 1
    /\ fan.topics = 0
    /\ fan.usage = <<MaxTokens, 2, 2 * MaxTokens + 3>>

\* ---- C28 ----
\* C28: an analyzer whose built prompt is empty or whitespace-only, or whose
\* entry point found no eligible input, returns an empty list with zero usage
\* and never calls the provider gateway.
C28_ShortCircuit ==
    \A a \in Analyzers :
       (\/ analyzers[a].prompt \in {"empty", "blank"}
        \/ analyzers[a].input = "ineligible") =>
          /\ analyzers[a].pc = "done"
          /\ analyzers[a].status = "returned"
          /\ analyzers[a].items = 0
          /\ analyzers[a].usage = <<0, 0, 0>>
          /\ analyzers[a].calls = 0

C28_Witness ==
    /\ analyzers["topics"].prompt = "blank" /\ analyzers["topics"].pc = "done"
    /\ analyzers["titles"].prompt = "empty" /\ analyzers["titles"].pc = "done"
    /\ analyzers["quotes"].input = "ineligible" /\ analyzers["quotes"].pc = "done"
    /\ fan.pc = "done" /\ fan.usage = <<0, 0, 0>>

\* ---- C29 ----
\* C29: BaseAnalyzer.analyze returns, it never raises; when the provider gave
\* None it returns an empty list with zero usage; otherwise the JSON parse is
\* tried first and the regex fallback only after the parse failed or gave no
\* data; when neither gives data the list is empty; and any unexpected
\* exception gives an empty list with zero usage.
C29_Empty(a) == analyzers[a].items = 0 /\ analyzers[a].usage = <<0, 0, 0>>

\* the parts of the claim that do not depend on what "the parse failed" means
C29_Common(a) ==
    /\ analyzers[a].status = "returned"
    /\ analyzers[a].response = "none" => C29_Empty(a)
    /\ analyzers[a].steps \in {<<>>, <<"parse">>, <<"parse", "regex">>}
    /\ analyzers[a].response # "ok" => analyzers[a].steps = <<>>
    /\ (analyzers[a].parse # "data" /\ analyzers[a].regex = "nothing") =>
          analyzers[a].items = 0
    /\ (analyzers[a].prompt = "error" \/ analyzers[a].fault # "none") =>
          C29_Empty(a)

C29_Called(a) == analyzers[a].input = "eligible" /\ analyzers[a].pc = "done"

C30_Attempts(t) == {w \in WorkerIds : workers[w].pc = "process" /\ workers[w].task = t}

C30_Places(t) ==
    Count(queue, t) + Cardinality(C30_Attempts(t))
       + Cardinality({tm \in timers : tm.task = t}) + Count(dlq, t)

C30_LiveTask(t) == Created(t) /\ nsucc[t] = 0 /\ t \notin dropped

C30_ExclusiveOwnership ==
    \A t \in TaskIds :
       /\ C30_Places(t) <= 1
       /\ C30_LiveTask(t) <=> C30_Places(t) = 1
       /\ C30_Attempts(t) # {} =>
             /\ nfail[t] = retry_count[t]
             /\ nsched[t] = nfail[t]
             /\ retry_count[t] < MaxRetries

C30_Witness ==
    /\ \E w \in WorkerIds : workers[w].pc = "process" /\ workers[w].task = 1
    /\ nfail[1] = 2 /\ nsched[1] = 2
    /\ \E tm \in timers : tm.task = 2
    /\ nfail[2] = 1

\* ---- the bot registry and _resolve_retry_bot_instance: actions ----

Registered(p) == \E i \in 1..Len(bots) : bots[i] = p

\* BotManager.set_bot_instance(bot, p): a dict keeps the position of a key it has
SetBotInstance(p) ==
    /\ ~Registered(p)
    /\ bots' = Append(bots, p)
    /\ UNCHANGED rtask
    /\ UNCHANGED not_resolve_vars

\* add_task(..., platform_id = p): the task records p
RetryTaskCreated(p) ==
    /\ rtask' = [pc |-> "created", recorded |-> p, platform_id |-> p, via |-> "none"]
    /\ UNCHANGED bots
    /\ UNCHANGED not_resolve_vars

\* str(platform_id or "").strip()
Normalized(p) == IF p = " matrix " THEN "matrix" ELSE p

\* BotManager.get_platform: the class defines no such method, so the getattr
\* in _is_matrix_platform_id gives None
BotManagerHasGetPlatform == FALSE

\* RetryManager._is_matrix_platform_id
IsMatrixPlatformId(p) ==
    /\ Normalized(p) # ""
    /\ \/ Normalized(p) = "matrix"
       \/ /\ BotManagerHasGetPlatform
          /\ Registered(Normalized(p))
          /\ Protocol(Normalized(p)) = "matrix"

\* the first registered id, in dict order from position i, that passes the test
FirstMatrix[i \in 1..(Cardinality(RegisteredIds) + 1)] ==
    IF i > Len(bots) THEN "none"
    ELSE IF IsMatrixPlatformId(bots[i]) THEN bots[i]
    ELSE FirstMatrix[i + 1]

\* RetryManager._resolve_retry_bot_instance: the id it resolves to, or "none"
ResolveRetryBotInstance(p) ==
    IF Normalized(p) # "" /\ Registered(Normalized(p)) /\ IsMatrixPlatformId(Normalized(p))
       THEN Normalized(p)
       ELSE FirstMatrix[1]

\* _process_task from the resolution of the bot to the rewrite of platform_id
ProcessTaskResolve ==
    /\ rtask.pc \in {"created", "resolved"}
    /\ LET r == ResolveRetryBotInstance(rtask.platform_id)
       IN  rtask' = [pc |-> "resolved", recorded |-> rtask.platform_id,
                     platform_id |-> IF r # "none" /\ r # rtask.platform_id
                                     THEN r ELSE rtask.platform_id,
                     via |-> r]
    /\ UNCHANGED bots
    /\ UNCHANGED not_resolve_vars

ResolveNext ==
    \/ \E p \in RegisteredIds : SetBotInstance(p)
    \/ \E p \in RecordedIds : RetryTaskCreated(p)
    \/ ProcessTaskResolve

ResolveSpec == Init /\ [][ResolveNext]_vars

\* ---- C31 ----
\* C31: when the platform_id a task recorded has no bot instance but some
\* registered instance serves the Matrix protocol, the attempt goes through
\* such an instance and platform_id is rewritten to its id; the attempt ends
\* with "no bot" only when no registered instance serves Matrix.
C31_ServesMatrix(p) == Registered(p) /\ Protocol(p) = "matrix"

C31_StaleDestination ==
    rtask.pc = "resolved" =>
       /\ (~Registered(Normalized(rtask.recorded)) /\ \E p \in RegisteredIds : C31_ServesMatrix(p)) =>
             /\ rtask.via # "none"
             /\ C31_ServesMatrix(rtask.via)
             /\ rtask.platform_id = rtask.via
       /\ rtask.via = "none" => ~ \E p \in RegisteredIds : C31_ServesMatrix(p)

\* ---- C32 ----
\* C32: the exception raised in the dead-letter handling after the append
\* (self._notify_failure does not exist) is caught by the loop: the worker
\* sleeps 1 s and goes back to the head of the loop with the manager still
\* running, the task is in the dead-letter list exactly once, and every task
\* created - before or after - is still finished.
C32_State ==
    /\ \A t \in TaskIds : Count(dlq, t) <= 1
    /\ \A w \in WorkerIds :
          workers[w].pc \in {"fallback", "sleep"} =>
             /\ Count(dlq, workers[w].task) = 1
             /\ retry_count[workers[w].task] = MaxRetries
             /\ running

C32_Step ==
    \A w \in WorkerIds :
       (workers[w].pc = "sleep" /\ workers'[w].pc # "sleep") =>
          /\ workers'[w].pc = "get"
          /\ running'
          /\ dlq' = dlq

C32_Later == \A t \in TaskIds : (Created(t) /\ dlq # <<>>) ~> Finished(t)

C32_LoopLevelCatch == []C32_State /\ [][C32_Step]_vars /\ C32_Later

C32_Witness ==
    /\ \E w \in WorkerIds : workers[w].pc = "sleep" /\ workers[w].task = 1
    /\ dlq = <<1>>
    /\ created = 1

\* ---- C33 ----
\* C33: a scheduler loop ends only by cancellation (stop_scheduler, alone or
\* inside restart_scheduler) or by finding auto-analysis disabled when its
\* sleep is over; an exception in an iteration puts it into the 300 s pause,
\* and the pause ends in a new iteration unless the loop is cancelled.
C33_Cancelled(l) ==
    /\ scheduler_task = l
    /\ stopped' # stopped \/ starters' # starters

C33_DisabledAtWake(l) ==
    loops[l].pc = "sleep" /\ clock >= loops[l].target /\ ~enable_auto_analysis

C33_Step ==
    \A l \in LoopIds :
       /\ (LiveLoop(l) /\ ~LiveLoop(l)') => C33_Cancelled(l) \/ C33_DisabledAtWake(l)
       /\ (loops[l].pc = "pause" /\ loops'[l].pc # "pause") =>
             loops'[l].pc = "head" \/ C33_Cancelled(l)
       /\ (loops[l].pc = "sleep" /\ enable_auto_analysis /\ loops'[l].pc # "sleep") =>
             loops'[l].pc \in {"run", "skip", "pause"} \/ C33_Cancelled(l)

BuildResults == Markups \cup {"empty", "exc"}

\* the call up to the first strategy: data, template, markup
RenderReportBegin ==
    /\ render.pc \in {"idle", "done"}
    /\ \E b \in BuildResults :
          render' = IF b \in Markups
                    THEN [NoRender EXCEPT !.pc = "strategies", !.html = b]
                    ELSE [NoRender EXCEPT !.pc = "done"]
    /\ UNCHANGED not_render_vars

\* the URLs html_render_func can give
Urls == {"url_a", "url_b"}

\* what html_render_func gives for one strategy: a URL, an empty value, or
\* an exception
StrategyOutcomes == Urls \cup {"empty", "exc"}

StrategyFailedOnlyOnException(o) == o = "exc"

\* "if image_url" is false, or the call raised
StrategyFailed(o) == o \in {"empty", "exc"}

\* one turn of "for image_options in render_strategies"; after the last
\* failure the loop is over and the call returns (None, html_content)
RenderStrategy ==
    /\ render.pc = "strategies"
    /\ LET i == Len(render.tried) + 1
       IN  \E o \in StrategyOutcomes :
              LET r == [render EXCEPT !.tried = Append(@, Strategies[i]),
                                      !.outcomes = Append(@, o)]
              IN  render' =
                     IF ~StrategyFailed(o)
                        THEN [r EXCEPT !.pc = "done", !.url = o, !.ret_html = render.html]
                     ELSE IF i = Len(Strategies)
                        THEN [r EXCEPT !.pc = "done", !.ret_html = render.html]
                     ELSE r
    /\ UNCHANGED not_render_vars

RenderNext == RenderReportBegin \/ RenderStrategy

RenderSpec == Init /\ [][RenderNext]_vars

\* ---- C34 ----
\* C34: the strategies are tried in the listed order; a strategy is tried
\* only after every earlier one failed (raised or gave an empty URL); the
\* call returns the URL of the first strategy that gave one, with the markup;
\* and when all four failed it returns (None, markup) with the markup built
\* before the rendering.
C34_OrderedFallback ==
    /\ Len(render.tried) <= Len(Strategies)
    /\ Len(render.outcomes) = Len(render.tried)
    /\ \A i \in 1..Len(render.tried) :
          /\ render.tried[i] = Strategies[i]
          /\ i < Len(render.tried) => render.outcomes[i] \in {"empty", "exc"}
    /\ render.pc = "strategies" =>
          \A i \in 1..Len(render.outcomes) : render.outcomes[i] \in {"empty", "exc"}
    /\ (render.pc = "done" /\ render.html # "none") =>
          /\ render.ret_html = render.html
          /\ render.tried # <<>>
          /\ IF render.outcomes[Len(render.outcomes)] \in {"url_a", "url_b"}
                THEN render.url = render.outcomes[Len(render.outcomes)]
                ELSE /\ render.url = "none"
                     /\ Len(render.tried) = Len(Strategies)

C34_Witness ==
    /\ render.pc = "done"
    /\ render.tried = Strategies
    /\ render.outcomes = <<"exc", "empty", "exc", "empty">>
    /\ render.url = "none" /\ render.ret_html = "html_b"

\* ---- PDFInstaller: actions ----

\* install_playwright up to "await process.communicate()" of the pip install
InstallPlaywright(c) ==
    /\ callers[c].pc \in {"idle", "replied"}
    /\ callers' = [callers EXCEPT ![c] = [pc |-> "pip", reply |-> "none"]]
    /\ UNCHANGED <<install_status, bg_tasks>>
    /\ UNCHANGED not_install_vars

RejectsNever(st) == FALSE

\* if PDFInstaller._install_status["in_progress"]
Rejects(st) == st.in_progress

\* install_system_deps: one run without an await
InstallSystemDeps(c) ==
    IF Rejects(install_status)
    THEN /\ callers' = [callers EXCEPT ![c] = [pc |-> "replied", reply |-> "busy"]]
         /\ UNCHANGED <<install_status, bg_tasks>>
    ELSE /\ install_status' = [in_progress |-> TRUE, completed |-> FALSE,
                               failed |-> FALSE, error_message |-> "none"]
         /\ bg_tasks' = Append(bg_tasks, "exec")
         /\ callers' = [callers EXCEPT ![c] = [pc |-> "replied", reply |-> "started"]]

\* what the pip install of a call ends in
PipResults == {"pip_failed", "custom_path", "install", "error"}

\* the pip install of call c is over: an error reply, the reply that a custom
\* browser path makes the download unnecessary, or install_system_deps
PipDone(c) ==
    /\ callers[c].pc = "pip"
    /\ \E r \in PipResults :
          IF r = "install"
          THEN InstallSystemDeps(c)
          ELSE /\ callers' = [callers EXCEPT ![c] = [pc |-> "replied", reply |-> r]]
               /\ UNCHANGED <<install_status, bg_tasks>>
    /\ UNCHANGED not_install_vars

\* bg_tasks without its i-th task
Without(i) == [j \in 1..(Len(bg_tasks) - 1) |-> IF j < i THEN bg_tasks[j] ELSE bg_tasks[j + 1]]

\* create_subprocess_exec of the background task returned, or raised
BackgroundExec(i) ==
    /\ bg_tasks[i] = "exec"
    /\ \E ok \in BOOLEAN :
          IF ok
          THEN /\ bg_tasks' = [bg_tasks EXCEPT ![i] = "communicate"]
               /\ UNCHANGED install_status
          ELSE /\ bg_tasks' = Without(i)
               /\ install_status' = [install_status EXCEPT !.failed = TRUE,
                                        !.error_message = "exception",
                                        !.in_progress = FALSE]
    /\ UNCHANGED callers
    /\ UNCHANGED not_install_vars

\* how "playwright install chromium" ends: return code 0, another return
\* code, or an exception of communicate()
InstallResults == {"ok", "failed", "raised"}

\* process.communicate() of the background task is over: the status is set
\* and the finally clause resets in_progress
BackgroundDone(i) ==
    /\ bg_tasks[i] = "communicate"
    /\ \E r \in InstallResults :
          install_status' =
             CASE r = "ok" -> [install_status EXCEPT !.completed = TRUE,
                                                     !.in_progress = FALSE]
               [] r = "failed" -> [install_status EXCEPT !.failed = TRUE,
                                      !.error_message = "stderr", !.in_progress = FALSE]
               [] OTHER -> [install_status EXCEPT !.failed = TRUE,
                               !.error_message = "exception", !.in_progress = FALSE]
    /\ bg_tasks' = Without(i)
    /\ UNCHANGED callers
    /\ UNCHANGED not_install_vars

InstallNext ==
    \/ \E c \in CallerIds : InstallPlaywright(c)
    \/ \E c \in CallerIds : PipDone(c)
    \/ \E i \in 1..Len(bg_tasks) : BackgroundExec(i)
    \/ \E i \in 1..Len(bg_tasks) : BackgroundDone(i)

InstallSpec == Init /\ [][InstallNext]_vars

\* ---- C35 ----
\* C35: at most one background install task is alive, and in_progress is true
\* exactly while one is; a request that finds in_progress true gets the
\* "in progress" reply and starts no task and changes no status field; and a
\* background task that ends - installed, failed or raised - leaves
\* in_progress false.
C35_State ==
    /\ Len(bg_tasks) <= 1
    /\ install_status.in_progress <=> Len(bg_tasks) = 1

C35_Step ==
    /\ \A c \in CallerIds :
          (callers[c].pc = "pip" /\ callers'[c].pc = "replied" /\ install_status.in_progress) =>
             /\ callers'[c].reply \in {"busy", "pip_failed", "custom_path", "error"}
             /\ UNCHANGED <<install_status, bg_tasks>>
    /\ Len(bg_tasks') < Len(bg_tasks) =>
          /\ ~install_status'.in_progress
          /\ install_status'.completed \/ install_status'.failed

C35_SingleFlight == []C35_State /\ [][C35_Step]_vars

C35_Witness ==
    /\ callers[1].reply = "started" /\ callers[2].reply = "busy"
    /\ bg_tasks = <<"communicate">>
    /\ install_status.in_progress

\* ---- C36 ----
\* C36: for one scheduled delivery the group gets the report in the
\* configured format or one text fallback, never two fallback or
\* failure-notice messages: the text reports and the failure notices sent
\* for one report are at most one together.
C36_SingleFallback ==
    flow.path = "sched" => effects.text + effects.notice <= 1

\* ---- C37 ----
\* C37: at most one _scheduler_loop task is alive, whatever the interleaving
\* of start_scheduler, stop_scheduler and restart_scheduler calls.
C37_SingleLoop == Cardinality({l \in LoopIds : LiveLoop(l)}) <= 1

\* ---- C38 ----
\* C38: when stop() returns, a task that a worker was processing or a timer
\* held when stop() was called is neither in the queue nor in the dead-letter
\* list and got no fallback text, and the tasks that were queued at the call
\* are still at the head of the queue, in their order.
C38_Step ==
    C10_StopReturns =>
       /\ \A t \in stop_seen'.tasks :
             /\ ~InQueue(t)'
             /\ ~InDlq(t)'
             /\ fbcalls'[t] = 0
       /\ Len(queue') >= Len(stop_seen'.queue)
       /\ SubSeq(queue', 1, Len(stop_seen'.queue)) = stop_seen'.queue

C38_StopDiscardsInFlight == [][C38_Step]_vars

\* ---- C39 ----
\* C39: over all the attempts of one task the room receives the retry prefix
\* text at most once.
C39_PrefixOnce == \A t \in TaskIds : prefix_sends[t] <= 1
====
